---- MODULE Spec2Model ----
(***************************************************************************)
(* Model of the passport OCR text-to-record engine of                      *)
(* backend/app/ocr_service.py: the MRZ line locator (find_mrz_lines), the  *)
(* validators and scorer, the Tier-1 MRZ parser (parse_mrz_manual), the    *)
(* Tier-2 label extractor (extract_fields_from_text), the reconciler       *)
(* (merge_passport_data) and the engine (process_passport_image).          *)
(*                                                                         *)
(* Python strings are TLA+ strings: Len, \o and SubSeq act on them, a      *)
(* character is a string of length 1.  Python lists are sequences.         *)
(* Indices and slices keep Python's 0-based, half-open convention through  *)
(* At and Slice.                                                           *)
(***************************************************************************)
EXTENDS Integers, Sequences, FiniteSets, TLC

VARIABLES full_text, pc, mrz_pairs, strategies_run, mrz_results, text_data,
          merge_idx, results, output, lib_installed, raised,
          m_mrz, m_text, m_out, m_pc

vars == <<full_text, pc, mrz_pairs, strategies_run, mrz_results, text_data,
          merge_idx, results, output, lib_installed, raised,
          m_mrz, m_text, m_out, m_pc>>

engine_vars == <<full_text, pc, mrz_pairs, strategies_run, mrz_results,
                 text_data, merge_idx, results, output, lib_installed, raised>>

merge_vars == <<m_mrz, m_text, m_out, m_pc>>

\* None where a record is expected, and where a line is expected
None == [is_none |-> TRUE]
NoLine == "None"

-----------------------------------------------------------------------------
(* Characters and Python string primitives                                 *)

UpperSeq == "ABCDEFGHIJKLMNOPQRSTUVWXYZ"
LowerSeq == "abcdefghijklmnopqrstuvwxyz"
DigitSeq == "0123456789"

Ch(s, i) == SubSeq(s, i, i)

CharsOf(s) == {Ch(s, i) : i \in 1..Len(s)}

UpperLetters == CharsOf(UpperSeq)
LowerLetters == CharsOf(LowerSeq)
Letters == UpperLetters \cup LowerLetters
Digits == CharsOf(DigitSeq)
Filler == "<"
MrzChars == UpperLetters \cup Digits \cup {Filler}
Whitespace == {" ", "\n", "\t"}
WordChars == Letters \cup Digits \cup {"_"}

Min(a, b) == IF a < b THEN a ELSE b
Max(a, b) == IF a > b THEN a ELSE b

\* s[a:b] for 0 <= a, 0 <= b
Slice(s, a, b) == IF a >= Min(b, Len(s)) THEN "" ELSE SubSeq(s, a + 1, Min(b, Len(s)))
\* s[a:] for 0 <= a
From(s, a) == IF a >= Len(s) THEN "" ELSE SubSeq(s, a + 1, Len(s))
\* a Python index into a list or string of length n is legal
ValidIndex(n, i) == -n <= i /\ i < n

\* s[i:i+1]: the character at offset i, "" when there is none
At(s, i) == IF i >= 0 /\ i < Len(s) THEN SubSeq(s, i + 1, i + 1) ELSE ""

UpperChar == [c \in LowerLetters |-> Ch(UpperSeq, CHOOSE i \in 1..26 : Ch(LowerSeq, i) = c)]

\* the character-wise operations split the string in halves
Half(s) == Len(s) \div 2

RECURSIVE Upper(_)
Upper(s) ==
    IF s = "" THEN ""
    ELSE IF Len(s) = 1 THEN (IF s \in LowerLetters THEN UpperChar[s] ELSE s)
    ELSE Upper(Slice(s, 0, Half(s))) \o Upper(From(s, Half(s)))

\* the characters of s that are in S, in order: re.sub('[^S]', '', s)
RECURSIVE Keep(_, _)
Keep(s, S) ==
    IF s = "" THEN ""
    ELSE IF Len(s) = 1 THEN (IF s \in S THEN s ELSE "")
    ELSE Keep(Slice(s, 0, Half(s)), S) \o Keep(From(s, Half(s)), S)

\* s.replace(c, d) for a single character c
RECURSIVE ReplaceChar(_, _, _)
ReplaceChar(s, c, d) ==
    IF s = "" THEN ""
    ELSE IF Len(s) = 1 THEN (IF s = c THEN d ELSE s)
    ELSE ReplaceChar(Slice(s, 0, Half(s)), c, d) \o ReplaceChar(From(s, Half(s)), c, d)

\* s with every character of S removed: s.replace(c, '') for each c in S
RECURSIVE Remove(_, _)
Remove(s, S) ==
    IF s = "" THEN ""
    ELSE IF Len(s) = 1 THEN (IF s \in S THEN "" ELSE s)
    ELSE Remove(Slice(s, 0, Half(s)), S) \o Remove(From(s, Half(s)), S)

Count(s, S) == Cardinality({i \in 1..Len(s) : Ch(s, i) \in S})

AllIn(s, S) == \A i \in 1..Len(s) : Ch(s, i) \in S

StartsWith(s, p) == Len(s) >= Len(p) /\ SubSeq(s, 1, Len(p)) = p

\* the 0-based offsets at which p occurs in s
Occurrences(s, p) ==
    {i \in 0..(Len(s) - Len(p)) : SubSeq(s, i + 1, i + Len(p)) = p}

\* p in s
Contains(s, p) == Occurrences(s, p) # {}

SetMin(S) == CHOOSE x \in S : \A y \in S : x <= y
SetMax(S) == CHOOSE x \in S : \A y \in S : x >= y

\* s.find(p): first offset, or -1
Find(s, p) == IF Contains(s, p) THEN SetMin(Occurrences(s, p)) ELSE -1

RECURSIVE RStrip(_, _)
RStrip(s, S) ==
    IF s # "" /\ Ch(s, Len(s)) \in S THEN RStrip(SubSeq(s, 1, Len(s) - 1), S) ELSE s

RECURSIVE LStrip(_, _)
LStrip(s, S) ==
    IF s # "" /\ Ch(s, 1) \in S THEN LStrip(From(s, 1), S) ELSE s

\* s.strip()
Strip(s) == LStrip(RStrip(s, Whitespace), Whitespace)

RECURSIVE Repeat(_, _)
Repeat(c, n) == IF n <= 0 THEN "" ELSE c \o Repeat(c, n - 1)

\* s.ljust(n, c)
Ljust(s, n, c) == s \o Repeat(c, n - Len(s))

\* re.sub(r' +', ' ', s): of a run of spaces the last one stays
RECURSIVE CollapseRange(_, _, _)
CollapseRange(s, a, b) ==
    IF a >= b THEN ""
    ELSE IF b = a + 1 THEN (IF At(s, a) = " " /\ At(s, a + 1) = " " THEN "" ELSE At(s, a))
    ELSE CollapseRange(s, a, (a + b) \div 2) \o CollapseRange(s, (a + b) \div 2, b)

CollapseSpaces(s) == CollapseRange(s, 0, Len(s))

\* s.split(c) for a single character c: always at least one part
RECURSIVE SplitChar(_, _)
SplitChar(s, c) ==
    LET k == Find(s, c)
    IN  IF k = -1 THEN <<s>>
        ELSE <<Slice(s, 0, k)>> \o SplitChar(From(s, k + 1), c)

\* s.split(): maximal runs of non-whitespace
SplitWs(s) == SelectSeq(SplitChar(ReplaceChar(ReplaceChar(s, "\n", " "), "\t", " "), " "),
                        LAMBDA p : p # "")

RECURSIVE Join(_, _)
Join(parts, sep) ==
    IF parts = <<>> THEN ""
    ELSE IF Len(parts) = 1 THEN parts[1]
    ELSE parts[1] \o sep \o Join(Tail(parts), sep)

\* the prefix of s matches the character classes cls[1], cls[2], ... in turn
PrefixClasses(s, cls) ==
    Len(s) >= Len(cls) /\ \A i \in 1..Len(cls) : Ch(s, i) \in cls[i]

\* re.match(r'^[S]{n}$', s)
IsExactly(s, S, n) == Len(s) = n /\ AllIn(s, S)

\* int(s) for a string of ASCII digits
DigitVal == [c \in Digits |-> (CHOOSE i \in 1..10 : Ch(DigitSeq, i) = c) - 1]

RECURSIVE ToInt(_)
ToInt(s) == IF s = "" THEN 0 ELSE 10 * ToInt(SubSeq(s, 1, Len(s) - 1)) + DigitVal[Ch(s, Len(s))]

-----------------------------------------------------------------------------
(* MRZ validators and scorer                                               *)

MrzWidth == 44

\* the line in upper case with every character kept
Cleaned_keeping_every_character(line) == Upper(line)

\* re.sub(r'[^A-Z0-9<]', '', line.upper())
Cleaned(line) == Keep(Upper(line), MrzChars)

\* the padding without the truncation
Normalize44_without_truncation(line) == Ljust(line, MrzWidth, "<")

\* line[:44].ljust(44, '<')
Normalize44(line) == Ljust(Slice(line, 0, MrzWidth), MrzWidth, Filler)

validate_mrz_line1(line) ==
    /\ line # "" /\ Len(line) >= 30
    /\ StartsWith(line, "P<")
    /\ Contains(line, "<<")
    /\ IsExactly(Slice(line, 2, 5), UpperLetters, 3)
    /\ Count(From(line, 5), Digits) <= 2

\* ^[A-Z0-9<]{9}[0-9<][A-Z]{3}[0-9]{6}
Line2ShapeClasses ==
    [i \in 1..9 |-> MrzChars] \o <<Digits \cup {Filler}>>
    \o [i \in 1..3 |-> UpperLetters] \o [i \in 1..6 |-> Digits]

Line2Shape(line) == PrefixClasses(line, Line2ShapeClasses)

\* ^[A-Z0-9<]{9}[0-9<][A-Z]{3}[0-9]{6}[0-9<][MF<]
Line2ValidClasses == Line2ShapeClasses \o <<Digits \cup {Filler}, {"M", "F", Filler}>>

\* validate_mrz_line2 with the pattern ending at the birth date
validate_mrz_line2_shape_only(line) ==
    /\ line # "" /\ Len(line) >= 30
    /\ PrefixClasses(line, Line2ShapeClasses)

validate_mrz_line2(line) ==
    /\ line # "" /\ Len(line) >= 30
    /\ PrefixClasses(line, Line2ValidClasses)

\* score_mrz_line2 with the length bonus given to every line
score_mrz_line2_any_length(line) ==
    LET nationality == IF Len(line) > 13 THEN Slice(line, 10, 13) ELSE ""
        sex == IF Len(line) > 20 THEN At(line, 20) ELSE ""
        dob == IF Len(line) > 19 THEN Slice(line, 13, 19) ELSE ""
    IN  10
      + (IF Len(Remove(Slice(line, 0, 9), {Filler})) >= 7 THEN 20 ELSE 0)
      + (IF IsExactly(nationality, UpperLetters, 3) /\ ~Contains(nationality, Filler)
            THEN 15 ELSE 0)
      + (IF sex \in {"M", "F"} THEN 10 ELSE 0)
      + (IF IsExactly(dob, Digits, 6) THEN 15 ELSE 0)

score_mrz_line2(line) ==
    LET nationality == IF Len(line) > 13 THEN Slice(line, 10, 13) ELSE ""
        sex == IF Len(line) > 20 THEN At(line, 20) ELSE ""
        dob == IF Len(line) > 19 THEN Slice(line, 13, 19) ELSE ""
    IN  (IF Len(line) >= 40 /\ Len(line) <= 48 THEN 10 ELSE 0)
      + (IF Len(Remove(Slice(line, 0, 9), {Filler})) >= 7 THEN 20 ELSE 0)
      + (IF IsExactly(nationality, UpperLetters, 3) /\ ~Contains(nationality, Filler)
            THEN 15 ELSE 0)
      + (IF sex \in {"M", "F"} THEN 10 ELSE 0)
      + (IF IsExactly(dob, Digits, 6) THEN 15 ELSE 0)

-----------------------------------------------------------------------------
(* MRZ line locator: find_mrz_lines                                        *)

MinCleanedLen == 15
ContinuationWindow == 10
BackwardWindow == 15

\* text.split('\n')
SplitLines(text) == SplitChar(text, "\n")

\* the integers of the finite set S in ascending order
RECURSIVE Ascending(_)
Ascending(S) ==
    IF S = {} THEN <<>> ELSE <<SetMin(S)>> \o Ascending(S \ {SetMin(S)})

IsLine1Candidate(cleaned) ==
    /\ Len(cleaned) >= MinCleanedLen
    /\ StartsWith(cleaned, "P<") /\ Len(cleaned) >= 20
    /\ Contains(cleaned, "<<") /\ validate_mrz_line1(cleaned)

IsLine2Candidate(cleaned) ==
    /\ Len(cleaned) >= MinCleanedLen
    /\ Line2Shape(cleaned) /\ Len(cleaned) >= 30
    /\ validate_mrz_line2(cleaned)

\* line1_candidates: (i, cleaned)
line1_candidates(lines) ==
    LET idx == Ascending({i \in 0..(Len(lines) - 1) :
                             IsLine1Candidate(Cleaned(lines[i + 1]))})
    IN  [k \in 1..Len(idx) |-> [idx |-> idx[k], line |-> Cleaned(lines[idx[k] + 1])]]

\* line2_candidates: (i, cleaned, score)
line2_candidates(lines) ==
    LET idx == Ascending({i \in 0..(Len(lines) - 1) :
                             IsLine2Candidate(Cleaned(lines[i + 1]))})
    IN  [k \in 1..Len(idx) |->
            [idx |-> idx[k], line |-> Cleaned(lines[idx[k] + 1]),
             score |-> score_mrz_line2(Cleaned(lines[idx[k] + 1]))]]

\* the search starting from a score only the best candidates exceed
NoBest_above_any_short_line == [line2 |-> NoLine, score |-> 29, idx |-> -1]

\* best_line2 = None, best_score = -1, best_idx = -1
NoBest == [line2 |-> NoLine, score |-> -1, idx |-> -1]

\* the inner loop were a later candidate to win a tie
RECURSIVE BestLine2_latest_on_tie(_, _, _, _)
BestLine2_latest_on_tie(cands, k, line1_idx, best) ==
    IF k > Len(cands) THEN best
    ELSE LET c == cands[k]
             adjusted_score == c.score - (c.idx - line1_idx) * 2
         IN  IF c.idx > line1_idx /\ adjusted_score >= best.score
             THEN BestLine2_latest_on_tie(cands, k + 1, line1_idx,
                      [line2 |-> c.line, score |-> adjusted_score, idx |-> c.idx])
             ELSE BestLine2_latest_on_tie(cands, k + 1, line1_idx, best)

\* one pass of the inner loop of strategy 1 over line2_candidates[k..]
RECURSIVE BestLine2(_, _, _, _)
BestLine2(cands, k, line1_idx, best) ==
    IF k > Len(cands) THEN best
    ELSE LET c == cands[k]
             adjusted_score == c.score - (c.idx - line1_idx) * 2
         IN  IF /\ c.idx > line1_idx
                /\ \/ adjusted_score > best.score
                   \/ adjusted_score = best.score /\ c.idx < best.idx
             THEN BestLine2(cands, k + 1, line1_idx,
                            [line2 |-> c.line, score |-> adjusted_score, idx |-> c.idx])
             ELSE BestLine2(cands, k + 1, line1_idx, best)

\* the matches of strategy 1, one per paired Line-1 candidate, in candidate order
Strategy1Matches(lines) ==
    LET c1 == line1_candidates(lines)
        c2 == line2_candidates(lines)
        best == [k \in 1..Len(c1) |-> BestLine2(c2, 1, c1[k].idx, NoBest)]
        hit == Ascending({k \in 0..(Len(c1) - 1) :
                             best[k + 1].line2 # NoLine /\ best[k + 1].line2 # ""})
    IN  [n \in 1..Len(hit) |->
            [line1_idx |-> c1[hit[n] + 1].idx, line2_idx |-> best[hit[n] + 1].idx,
             l1 |-> Normalize44(c1[hit[n] + 1].line),
             l2 |-> Normalize44(best[hit[n] + 1].line2)]]

PairsOf(matches) == [n \in 1..Len(matches) |-> <<matches[n].l1, matches[n].l2>>]

Strategy1Pairs(lines) == PairsOf(Strategy1Matches(lines))

IsPartialLine1(cleaned) ==
    /\ StartsWith(cleaned, "P<") /\ Contains(cleaned, "<<")
    /\ MinCleanedLen <= Len(cleaned) /\ Len(cleaned) < MrzWidth

\* len(c) >= 5 and c.count('<') / len(c) > 0.7
IsContinuation(next_cleaned) ==
    Len(next_cleaned) >= 5 /\ Count(next_cleaned, {Filler}) * 10 > 7 * Len(next_cleaned)

\* the inner loop of strategy 2 from line j: the Line-1 parts gathered and the
\* Line 2 found (None when the window ends first)
RECURSIVE ScanContinuation(_, _, _, _)
ScanContinuation(lines, j, stop, parts) ==
    IF j >= stop THEN [line1_parts |-> parts, line2 |-> NoLine]
    ELSE LET next_cleaned == Cleaned(lines[j + 1])
         IN  IF next_cleaned = "" THEN ScanContinuation(lines, j + 1, stop, parts)
             ELSE IF Line2Shape(next_cleaned)
                  THEN [line1_parts |-> parts, line2 |-> Normalize44(next_cleaned)]
             ELSE IF IsContinuation(next_cleaned)
                  THEN ScanContinuation(lines, j + 1, stop, Append(parts, next_cleaned))
             ELSE ScanContinuation(lines, j + 1, stop, parts)

\* min(i + 10, len(lines))
ContinuationStop(i, n) == Min(i + ContinuationWindow, n)

Strategy2Scan(lines, i) ==
    ScanContinuation(lines, i + 1, ContinuationStop(i, Len(lines)),
                     <<Cleaned(lines[i + 1])>>)

Strategy2Matches(lines) ==
    LET hit == Ascending({i \in 0..(Len(lines) - 1) :
                             /\ IsPartialLine1(Cleaned(lines[i + 1]))
                             /\ Strategy2Scan(lines, i).line2 # NoLine
                             /\ Strategy2Scan(lines, i).line2 # ""})
    IN  [n \in 1..Len(hit) |->
            [line1_idx |-> hit[n],
             l1 |-> Normalize44(Join(Strategy2Scan(lines, hit[n]).line1_parts, "")),
             l2 |-> Strategy2Scan(lines, hit[n]).line2]]

Strategy2Pairs(lines) == PairsOf(Strategy2Matches(lines))

\* sorted(cands, key=score, reverse=True): stable, by insertion
RECURSIVE InsertByScore(_, _)
InsertByScore(sorted, c) ==
    IF sorted = <<>> THEN <<c>>
    ELSE IF Head(sorted).score >= c.score THEN <<Head(sorted)>> \o InsertByScore(Tail(sorted), c)
    ELSE <<c>> \o sorted

RECURSIVE SortByScoreDesc(_)
SortByScoreDesc(cands) ==
    IF cands = <<>> THEN <<>>
    ELSE InsertByScore(SortByScoreDesc(SubSeq(cands, 1, Len(cands) - 1)), cands[Len(cands)])

\* the stop one line further back: the first line of the text is examined
BackwardStop_one_further(line2_idx) == Max(-1, line2_idx - BackwardWindow - 1)

\* max(0, line2_idx - 15)
BackwardStop(line2_idx) == Max(0, line2_idx - BackwardWindow)

\* range(line2_idx - 1, max(0, line2_idx - 15), -1): first index whose line is a Line 1
RECURSIVE BackwardScan(_, _, _)
BackwardScan(lines, i, stop) ==
    IF i <= stop THEN -1
    ELSE LET cleaned == Cleaned(lines[i + 1])
         IN  IF StartsWith(cleaned, "P<") /\ Contains(cleaned, "<<") /\ validate_mrz_line1(cleaned)
             THEN i
             ELSE BackwardScan(lines, i - 1, stop)

Strategy3Matches(lines) ==
    LET sorted_line2 == SortByScoreDesc(line2_candidates(lines))
        found == [k \in 1..Len(sorted_line2) |->
                     BackwardScan(lines, sorted_line2[k].idx - 1,
                                  BackwardStop(sorted_line2[k].idx))]
        hit == Ascending({k \in 0..(Len(sorted_line2) - 1) : found[k + 1] # -1})
    IN  [n \in 1..Len(hit) |->
            [line1_idx |-> found[hit[n] + 1], line2_idx |-> sorted_line2[hit[n] + 1].idx,
             l1 |-> Normalize44(Cleaned(lines[found[hit[n] + 1] + 1])),
             l2 |-> Normalize44(sorted_line2[hit[n] + 1].line)]]

Strategy3Pairs(lines) == PairsOf(Strategy3Matches(lines))

\* the value find_mrz_lines returns
find_mrz_lines(text) ==
    LET lines == SplitLines(text)
    IN  IF Strategy1Pairs(lines) # <<>> THEN Strategy1Pairs(lines)
        ELSE IF Strategy2Pairs(lines) # <<>> THEN Strategy2Pairs(lines)
        ELSE Strategy3Pairs(lines)

-----------------------------------------------------------------------------
(* Normalizers and the Tier-1 MRZ parser                                   *)

\* the fields of PassportData that carry a value
NameFields == {"first_name", "middle_name", "last_name"}
ValueFields == {"gender", "date_of_birth", "nationality"}
Fields == NameFields \cup ValueFields \cup {"passport_number"}

\* the order in which the flag lists are written out
FlagOrder == <<"first_name", "last_name", "passport_number", "date_of_birth",
               "gender", "nationality">>

\* list(set(flags)): each flagged name once (Python leaves the order open; the
\* model writes FlagOrder's)
ListOfSet(flags) ==
    SelectSeq(FlagOrder, LAMBDA f : \E i \in 1..Len(flags) : flags[i] = f)

\* confidences are kept in hundredths: 0.95 is 95
ConfLibraryClean == 95
ConfLibraryFlagged == 70
ConfManualClean == 80
ConfManualFlagged == 50
ConfTextFew == 50
ConfTextMany == 30

PassportData(first, middle, last, gender, dob, nationality, pn, conf, flags) ==
    [first_name |-> first, middle_name |-> middle, last_name |-> last,
     gender |-> gender, date_of_birth |-> dob, nationality |-> nationality,
     passport_number |-> pn, confidence |-> conf, low_confidence_fields |-> flags]

NamesResult(first, middle, last, flags) ==
    [first_name |-> first, middle_name |-> middle, last_name |-> last,
     low_confidence |-> flags]

\* the given names with the single letters kept
GivenNames_keeping_single_letters(given_section) ==
    SelectSeq(SplitChar(given_section, Filler), LAMBDA n : n # "")

\* [n for n in given_section.split('<') if n and len(n) >= 2]
GivenNames(given_section) ==
    SelectSeq(SplitChar(given_section, Filler), LAMBDA n : n # "" /\ Len(n) >= 2)

\* re.match(r'^[A-Z]+$', n)
IsUpperWord(n) == n # "" /\ AllIn(n, UpperLetters)

parse_mrz_names(names_section) ==
    IF names_section = "" THEN NamesResult("", "", "", <<"first_name", "last_name">>)
    ELSE
    LET stripped == RStrip(names_section, {Filler})
        sep == Find(stripped, "<<")
        last_name_raw == IF sep = -1 THEN stripped ELSE Slice(stripped, 0, sep)
        last_name == Strip(CollapseSpaces(Upper(Strip(ReplaceChar(last_name_raw, Filler, " ")))))
        last_flags == IF Len(last_name) < 2 \/ ~AllIn(last_name, UpperLetters \cup Whitespace)
                      THEN <<"last_name">> ELSE <<>>
        given_section == RStrip(From(stripped, sep + 2), {Filler})
        given_names == GivenNames(given_section)
        first_name == Upper(given_names[1])
        middle_parts == SelectSeq(Tail(given_names), IsUpperWord)
    IN  IF sep = -1 THEN NamesResult("", "", last_name, last_flags \o <<"first_name">>)
        ELSE IF given_names = <<>>
             THEN NamesResult("", "", last_name, last_flags \o <<"first_name">>)
        ELSE NamesResult(first_name,
                         IF Len(given_names) > 1
                            THEN Join([k \in 1..Len(middle_parts) |-> Upper(middle_parts[k])], " ")
                            ELSE "",
                         last_name,
                         last_flags \o (IF Len(first_name) < 2 \/ ~IsUpperWord(first_name)
                                        THEN <<"first_name">> ELSE <<>>))

PivotYear == 30

\* format_date with the pivot year itself sent to the last century
format_date_pivot_excluded(date_str) ==
    IF date_str = "" \/ Len(date_str) < 6 THEN [value |-> date_str, valid |-> FALSE]
    ELSE
    LET cleaned == Keep(Slice(date_str, 0, 6), Digits)
        yy == Slice(cleaned, 0, 2)
        mm == Slice(cleaned, 2, 4)
        dd == Slice(cleaned, 4, 6)
    IN  IF Len(cleaned) # 6 THEN [value |-> date_str, valid |-> FALSE]
        ELSE IF ~(1 <= ToInt(dd) /\ ToInt(dd) <= 31 /\ 1 <= ToInt(mm) /\ ToInt(mm) <= 12)
             THEN [value |-> date_str, valid |-> FALSE]
        ELSE [value |-> dd \o "/" \o mm \o "/"
                        \o (IF ToInt(yy) < PivotYear THEN "20" ELSE "19") \o yy,
              valid |-> TRUE]

\* format_date: (value, valid)
format_date(date_str) ==
    IF date_str = "" \/ Len(date_str) < 6 THEN [value |-> date_str, valid |-> FALSE]
    ELSE
    LET cleaned == Keep(Slice(date_str, 0, 6), Digits)
        yy == Slice(cleaned, 0, 2)
        mm == Slice(cleaned, 2, 4)
        dd == Slice(cleaned, 4, 6)
    IN  IF Len(cleaned) # 6 THEN [value |-> date_str, valid |-> FALSE]
        ELSE IF ~(1 <= ToInt(dd) /\ ToInt(dd) <= 31 /\ 1 <= ToInt(mm) /\ ToInt(mm) <= 12)
             THEN [value |-> date_str, valid |-> FALSE]
        ELSE [value |-> dd \o "/" \o mm \o "/"
                        \o (IF ToInt(yy) <= PivotYear THEN "20" ELSE "19") \o yy,
              valid |-> TRUE]

\* re.match(r'^[A-Z0-9]{5,12}$', cleaned)
clean_passport_number(number) ==
    IF number = "" THEN [value |-> "", valid |-> FALSE]
    ELSE LET cleaned == Upper(Strip(Remove(number, {Filler})))
         IN  [value |-> cleaned,
              valid |-> Len(cleaned) >= 5 /\ Len(cleaned) <= 12
                        /\ AllIn(cleaned, UpperLetters \cup Digits)]

clean_country_code(code) ==
    LET cleaned == Slice(Strip(Remove(Upper(code), {Filler})), 0, 3)
    IN  [value |-> cleaned, valid |-> IsExactly(cleaned, UpperLetters, 3)]

\* parse_mrz_manual taking the names from behind the document type
parse_mrz_manual_names_after_the_type(line1, line2) ==
    LET names_part == IF Len(line1) > 2 THEN From(line1, 2) ELSE ""
        names == parse_mrz_names(names_part)
        pn == clean_passport_number(IF Len(line2) > 9 THEN Slice(line2, 0, 9) ELSE "")
        nat == clean_country_code(IF Len(line2) > 13 THEN Slice(line2, 10, 13) ELSE "")
        dob == format_date(IF Len(line2) > 19 THEN Slice(line2, 13, 19) ELSE "")
        sex == IF Len(line2) > 20 THEN At(line2, 20) ELSE ""
        gender == IF sex \in {"M", "F"} THEN sex ELSE ""
        low_confidence_fields ==
            names.low_confidence
            \o (IF ~pn.valid THEN <<"passport_number">> ELSE <<>>)
            \o (IF ~nat.valid THEN <<"nationality">> ELSE <<>>)
            \o (IF ~dob.valid THEN <<"date_of_birth">> ELSE <<>>)
            \o (IF gender = "" THEN <<"gender">> ELSE <<>>)
    IN  PassportData(names.first_name, names.middle_name, names.last_name, gender,
                     dob.value, nat.value, pn.value,
                     IF low_confidence_fields = <<>> THEN ConfManualClean
                                                     ELSE ConfManualFlagged,
                     ListOfSet(low_confidence_fields))

\* parse_mrz_manual reading the sex one position late
parse_mrz_manual_sex_at_offset_21(line1, line2) ==
    LET names_part == IF Len(line1) > 5 THEN From(line1, 5) ELSE ""
        names == parse_mrz_names(names_part)
        pn == clean_passport_number(IF Len(line2) > 9 THEN Slice(line2, 0, 9) ELSE "")
        nat == clean_country_code(IF Len(line2) > 13 THEN Slice(line2, 10, 13) ELSE "")
        dob == format_date(IF Len(line2) > 19 THEN Slice(line2, 13, 19) ELSE "")
        sex == IF Len(line2) > 21 THEN At(line2, 21) ELSE ""
        gender == IF sex \in {"M", "F"} THEN sex ELSE ""
        low_confidence_fields ==
            names.low_confidence
            \o (IF ~pn.valid THEN <<"passport_number">> ELSE <<>>)
            \o (IF ~nat.valid THEN <<"nationality">> ELSE <<>>)
            \o (IF ~dob.valid THEN <<"date_of_birth">> ELSE <<>>)
            \o (IF gender = "" THEN <<"gender">> ELSE <<>>)
    IN  PassportData(names.first_name, names.middle_name, names.last_name, gender,
                     dob.value, nat.value, pn.value,
                     IF low_confidence_fields = <<>> THEN ConfManualClean
                                                     ELSE ConfManualFlagged,
                     ListOfSet(low_confidence_fields))

parse_mrz_manual(line1, line2) ==
    LET names_part == IF Len(line1) > 5 THEN From(line1, 5) ELSE ""
        names == parse_mrz_names(names_part)
        pn == clean_passport_number(IF Len(line2) > 9 THEN Slice(line2, 0, 9) ELSE "")
        nat == clean_country_code(IF Len(line2) > 13 THEN Slice(line2, 10, 13) ELSE "")
        dob == format_date(IF Len(line2) > 19 THEN Slice(line2, 13, 19) ELSE "")
        sex == IF Len(line2) > 20 THEN At(line2, 20) ELSE ""
        gender == IF sex \in {"M", "F"} THEN sex ELSE ""
        low_confidence_fields ==
            names.low_confidence
            \o (IF ~pn.valid THEN <<"passport_number">> ELSE <<>>)
            \o (IF ~nat.valid THEN <<"nationality">> ELSE <<>>)
            \o (IF ~dob.valid THEN <<"date_of_birth">> ELSE <<>>)
            \o (IF gender = "" THEN <<"gender">> ELSE <<>>)
    IN  PassportData(names.first_name, names.middle_name, names.last_name, gender,
                     dob.value, nat.value, pn.value,
                     IF low_confidence_fields = <<>> THEN ConfManualClean
                                                     ELSE ConfManualFlagged,
                     ListOfSet(low_confidence_fields))

\* parse_mrz_with_library reads the name TD3CodeChecker, which no module-level
\* statement binds (the import at line 590 binds it in extract_from_mrz_lines
\* only): the NameError is caught at line 471 and the function returns None.
parse_mrz_with_library(line1, line2) == None

\* the record of lines 595-633, built from the checker's fields
LibraryRecord(mrz_result) ==
    LET names == parse_mrz_names(mrz_result.surname \o "<<" \o mrz_result.name)
        nat == clean_country_code(mrz_result.nationality)
        dob == format_date(mrz_result.birth_date)
        pn == clean_passport_number(mrz_result.document_number)
        sex == Upper(mrz_result.sex)
        gender == IF sex \in {"M", "F"} THEN sex ELSE ""
        low_confidence_fields ==
            names.low_confidence
            \o (IF ~nat.valid THEN <<"nationality">> ELSE <<>>)
            \o (IF ~dob.valid THEN <<"date_of_birth">> ELSE <<>>)
            \o (IF ~pn.valid THEN <<"passport_number">> ELSE <<>>)
            \o (IF gender = "" THEN <<"gender">> ELSE <<>>)
    IN  PassportData(names.first_name, names.middle_name, names.last_name, gender,
                     dob.value, nat.value, pn.value,
                     IF low_confidence_fields = <<>> THEN ConfLibraryClean
                                                     ELSE ConfLibraryFlagged,
                     ListOfSet(low_confidence_fields))

\* installed: whether `from mrz.checker.td3 import TD3CodeChecker` succeeds
extract_from_mrz_lines(mrz_lines, installed) ==
    IF Len(mrz_lines) < 2 THEN None
    ELSE LET line1 == mrz_lines[1]
             line2 == mrz_lines[2]
             mrz_result == IF installed THEN parse_mrz_with_library(line1, line2) ELSE None
         IN  IF installed /\ mrz_result # None /\ mrz_result.valid
             THEN LibraryRecord(mrz_result)
             ELSE parse_mrz_manual(line1, line2)

-----------------------------------------------------------------------------
(* Regular-expression idioms used by the Tier-2 extractor.  The model's    *)
(* texts are ASCII, so a class such as A/A-acute is written with its  *)
(* ASCII member only.                                                      *)

\* \b at offset k of s
WordBoundary(s, k) ==
    (k > 0 /\ At(s, k - 1) \in WordChars) # (k < Len(s) /\ At(s, k) \in WordChars)

\* the offset after the longest run of characters of S that starts at k
RunEnd(s, k, S) ==
    IF k >= Len(s) THEN k ELSE SetMin({j \in k..Len(s) : j = Len(s) \/ At(s, j) \notin S})

\* the literal w stands at offset k of s
LitAt(s, k, w) == Slice(s, k, k + Len(w)) = w

\* A label pattern: literal words with \s* between them, \b in front when lb
\* and behind when rb.
Label(lb, words, rb) == [lb |-> lb, words |-> words, rb |-> rb]

RECURSIVE WordsEnd(_, _, _, _)
WordsEnd(words, n, s, k) ==
    IF ~LitAt(s, k, words[n]) THEN -1
    ELSE IF n = Len(words) THEN k + Len(words[n])
    ELSE WordsEnd(words, n + 1, s, RunEnd(s, k + Len(words[n]), Whitespace))

\* the offset at which the pattern's match from offset k ends, or -1
LabelEndAt(pat, s, k) ==
    IF pat.lb /\ ~WordBoundary(s, k) THEN -1
    ELSE LET e == WordsEnd(pat.words, 1, s, k)
         IN  IF e # -1 /\ pat.rb /\ ~WordBoundary(s, e) THEN -1 ELSE e

LabelStarts(pat, s) == {k \in 0..Len(s) : LabelEndAt(pat, s, k) # -1}

\* re.search(pattern, s)
Search(pat, s) == LabelStarts(pat, s) # {}

\* any(re.search(p, s) for p in patterns)
AnySearch(pats, s) == \E n \in 1..Len(pats) : Search(pats[n], s)

\* re.sub(r'(?:alt1|alt2|...|/.*)', '', s, flags=re.IGNORECASE): whatever an
\* alternative matches is dropped, and so is everything from a "/" on
RECURSIVE SubLabels(_, _, _)
SubLabels(s, k, alts) ==
    IF k >= Len(s) THEN ""
    ELSE LET hits == {n \in 1..Len(alts) : LabelEndAt(alts[n], Upper(s), k) # -1}
         IN  IF hits # {} THEN SubLabels(s, LabelEndAt(alts[SetMin(hits)], Upper(s), k), alts)
             ELSE IF At(s, k) = "/" THEN ""
             ELSE At(s, k) \o SubLabels(s, k + 1, alts)

-----------------------------------------------------------------------------
(* Tier-2 label extractor: extract_fields_from_text                        *)

\* [l.strip() for l in text.split('\n') if l.strip()]
TextLines(text) ==
    LET raw == SplitLines(text)
        kept == SelectSeq(raw, LAMBDA l : Strip(l) # "")
    IN  [k \in 1..Len(kept) |-> Strip(kept[k])]

ValueSeparators == {":", "/"} \cup Whitespace
NoiseChars == {"/", "-", ":", ","} \cup Whitespace

\* the same-line value of find_value_after_label:
\* re.search(pattern + r'[:\s/]*(.+)$', line_upper), group 1 stripped; "" when
\* there is no match or the value is refused as noise
SameLineValue(pat, line_upper) ==
    LET starts == {k \in LabelStarts(pat, line_upper) :
                      LabelEndAt(pat, line_upper, k) < Len(line_upper)}
        e == LabelEndAt(pat, line_upper, SetMin(starts))
        r == RunEnd(line_upper, e, ValueSeparators)
        group1 == IF r < Len(line_upper) THEN From(line_upper, r)
                  ELSE From(line_upper, Len(line_upper) - 1)
        value == Strip(group1)
    IN  IF starts = {} THEN ""
        ELSE IF value # "" /\ Len(value) > 1 /\ ~AllIn(value, NoiseChars) THEN value
        ELSE ""

\* the look-ahead without the end of the text as its limit
LookaheadStop_past_the_end(max_lines_ahead, n, i) == max_lines_ahead + 1

\* min(max_lines_ahead + 1, len(text_lines) - i)
LookaheadStop(max_lines_ahead, n, i) == Min(max_lines_ahead + 1, n - i)

\* the loop over the next lines of find_value_after_label, from offset j;
\* i is the 0-based index of the label line
RECURSIVE NextLineValue(_, _, _, _, _)
NextLineValue(pats, text_lines, i, j, max_lines_ahead) ==
    IF j >= LookaheadStop(max_lines_ahead, Len(text_lines), i) THEN ""
    ELSE LET next_line == Strip(text_lines[i + j + 1])
         IN  IF next_line = "" \/ Len(next_line) < 2
             THEN NextLineValue(pats, text_lines, i, j + 1, max_lines_ahead)
             ELSE IF AnySearch(pats, Upper(next_line)) THEN ""
             ELSE IF \/ Count(next_line, Letters) * 2 > Len(next_line)
                     \/ AllIn(Upper(next_line), UpperLetters \cup Digits \cup Whitespace \cup {"-"})
                  THEN next_line
             ELSE NextLineValue(pats, text_lines, i, j + 1, max_lines_ahead)

\* find_value_after_label from line i (0-based) on.  On a line the first
\* pattern that matches and gives a value decides: its same-line value, else
\* the next-line value (which is the same for every pattern)
RECURSIVE FindValueFrom(_, _, _, _)
FindValueFrom(pats, text_lines, i, max_lines_ahead) ==
    IF i >= Len(text_lines) THEN ""
    ELSE LET line_upper == Strip(Upper(text_lines[i + 1]))
             next == NextLineValue(pats, text_lines, i, 1, max_lines_ahead)
             hits == {p \in 1..Len(pats) :
                         /\ Search(pats[p], line_upper)
                         /\ (SameLineValue(pats[p], line_upper) # "" \/ next # "")}
         IN  IF hits = {} THEN FindValueFrom(pats, text_lines, i + 1, max_lines_ahead)
             ELSE CHOOSE value \in {IF SameLineValue(pats[p], line_upper) # ""
                                    THEN SameLineValue(pats[p], line_upper)
                                    ELSE next : p \in {SetMin(hits)}} : TRUE

find_value_after_label(label_patterns, text_lines, max_lines_ahead) ==
    FindValueFrom(label_patterns, text_lines, 0, max_lines_ahead)

surname_patterns ==
    << Label(TRUE, <<"SURNAME">>, TRUE),
       Label(TRUE, <<"FAMILY", "NAME">>, TRUE),
       Label(TRUE, <<"LAST", "NAME">>, TRUE),
       Label(FALSE, <<"CSALADI", "NEV">>, FALSE),
       Label(TRUE, <<"NUMELUL">>, TRUE),
       Label(TRUE, <<"1.", "NUMELE">>, TRUE) >>

\* (?:SURNAME|FAMILY\s*NAME|NOM|NUMELE|/.*)
SurnameRemnants ==
    << Label(FALSE, <<"SURNAME">>, FALSE), Label(FALSE, <<"FAMILY", "NAME">>, FALSE),
       Label(FALSE, <<"NOM">>, FALSE), Label(FALSE, <<"NUMELE">>, FALSE) >>

SurnameStopwords == {"OF", "THE", "AND"}

\* replace('-', ' '), re.sub(r'[^A-Za-z\s]', '', ...).strip().upper(), re.sub(r' +', ' ', ...)
LettersOnly(name) ==
    CollapseSpaces(Upper(Strip(Keep(ReplaceChar(name, "-", " "), Letters \cup Whitespace))))

ExtractSurname(lines) ==
    LET found == find_value_after_label(surname_patterns, lines, 3)
        last_name == LettersOnly(Strip(SubLabels(found, 0, SurnameRemnants)))
        parts == SelectSeq(SplitWs(last_name),
                           LAMBDA w : Len(w) > 1 /\ w \notin SurnameStopwords)
    IN  IF last_name # "" /\ Contains(last_name, " ") /\ parts # <<>> THEN parts[1]
        ELSE last_name

given_patterns ==
    << Label(TRUE, <<"GIVEN", "NAME">>, FALSE),
       Label(TRUE, <<"FIRST", "NAME">>, FALSE),
       Label(TRUE, <<"FORENAME">>, FALSE),
       Label(TRUE, <<"PRENOM">>, FALSE),
       Label(FALSE, <<"UTONEV">>, FALSE),
       Label(TRUE, <<"PRENUMELE">>, TRUE),
       Label(TRUE, <<"2.", "PRENUMELE">>, TRUE) >>

GarbagePrefixes == {"OFISRA", "FISRA", "ISRAEL", "STATE", "SRAE", "OFISRAB", "SPRIN",
                    "SUMA", "MAON", "ROMANEASCA", "PASAPORT", "PASSPORT"}

\* any(re.search(gp, candidate_upper) for gp in garbage_patterns)
IsGarbage(c) ==
    \/ \E g \in GarbagePrefixes : StartsWith(c, g)
    \/ \E k \in Occurrences(c, "ISRAEL") : k + 6 < Len(c) /\ At(c, k + 6) \in Digits
    \/ Contains(c, "OFISRAEL")
    \* ^[A-Z]{1,3}\d{2,}
    \/ LET n == RunEnd(c, 0, UpperLetters)
       IN  n >= 1 /\ n <= 3 /\ RunEnd(c, n, Digits) >= n + 2
    \* ^\d+[A-Z]+$
    \/ LET d == RunEnd(c, 0, Digits)
       IN  d >= 1 /\ d < Len(c) /\ RunEnd(c, d, UpperLetters) = Len(c)

GivenWindow == 15

\* min(15, len(lines) - i)
GivenStop(n, i) == Min(GivenWindow, n - i)

\* the inner loop of the given-name search, from offset j after label line i
RECURSIVE GivenCandidate(_, _, _)
GivenCandidate(lines, i, j) ==
    IF j >= GivenStop(Len(lines), i) THEN ""
    ELSE LET candidate == Strip(lines[i + j + 1])
         IN  IF candidate = "" \/ Len(candidate) < 2 THEN GivenCandidate(lines, i, j + 1)
             ELSE IF AnySearch(given_patterns \o surname_patterns, Upper(candidate)) THEN ""
             ELSE IF IsGarbage(Upper(candidate)) THEN GivenCandidate(lines, i, j + 1)
             ELSE IF Count(candidate, Letters) * 10 < Len(candidate) * 7
                  THEN GivenCandidate(lines, i, j + 1)
             ELSE candidate

\* (?:GIVEN\s*NAME|FIRST\s*NAME|FORENAME|PRENUMELE|PR[E.]NOM|/.*)
GivenRemnants ==
    << Label(FALSE, <<"GIVEN", "NAME">>, FALSE), Label(FALSE, <<"FIRST", "NAME">>, FALSE),
       Label(FALSE, <<"FORENAME">>, FALSE), Label(FALSE, <<"PRENUMELE">>, FALSE),
       Label(FALSE, <<"PRENOM">>, FALSE) >>

GivenStopwords == {"OF", "THE", "AND", "ISRAEL", "STATE", "FISRAEL", "OFISRAEL"}

\* given_names after the search and the clean-up (lines 754-799)
ExtractGivenNames(lines) ==
    LET labels == {i \in 0..(Len(lines) - 1) :
                      AnySearch(given_patterns, Strip(Upper(lines[i + 1])))}
        found == IF labels = {} THEN "" ELSE GivenCandidate(lines, SetMin(labels), 1)
        given_names == LettersOnly(Strip(SubLabels(found, 0, GivenRemnants)))
    IN  Join(SelectSeq(SplitWs(given_names),
                       LAMBDA w : Len(w) > 1 /\ w \notin GivenStopwords), " ")

\* A passport-number pattern: head \s* (alt1|alt2|...) [seps]* ([A-Z0-9]{6,12});
\* alts are listed in the order the regex engine tries them
PnPattern(head, alts, seps) == [head |-> head, alts |-> alts, seps |-> seps]

pn_patterns ==
    << PnPattern("PASSPORT", <<"NO.", "NO", "NUMBER", "#">>, {":"} \cup Whitespace),
       PnPattern("DOCUMENT", <<"NO.", "NO", "NUMBER">>, {":"} \cup Whitespace),
       PnPattern("UTLEVELSZAM", <<"">>, {":", "/"} \cup Whitespace) >>

\* group 1 of the pattern matched from offset k, or "" when it does not match
PnCaptureAt(pat, s, k) ==
    LET a == RunEnd(s, k + Len(pat.head), Whitespace)
        start(n) == RunEnd(s, a + Len(pat.alts[n]), pat.seps)
        run(n) == RunEnd(s, start(n), UpperLetters \cup Digits) - start(n)
        ok == {n \in 1..Len(pat.alts) : LitAt(s, a, pat.alts[n]) /\ run(n) >= 6}
    IN  IF ~LitAt(s, k, pat.head) \/ ok = {} THEN ""
        ELSE Slice(s, start(SetMin(ok)), start(SetMin(ok)) + Min(run(SetMin(ok)), 12))

\* the end of [A-Z]{0,2}[0-9]{7,9} matched from offset k with the whole runs
\* of letters and digits there, or -1
NumberShapeEnd(s, k) ==
    LET l == RunEnd(s, k, UpperLetters)
        d == RunEnd(s, l, Digits)
    IN  IF l - k <= 2 /\ d - l >= 7 /\ d - l <= 9 THEN d ELSE -1

\* NO\.?\s+([A-Z]{0,2}[0-9]{7,9})\b from offset k: group 1, or ""
NoNumberAt(s, k) ==
    LET dot == IF LitAt(s, k + 2, ".") THEN k + 3 ELSE k + 2
        w == RunEnd(s, dot, Whitespace)
        e == NumberShapeEnd(s, w)
    IN  IF LitAt(s, k, "NO") /\ w > dot /\ e # -1 /\ WordBoundary(s, e)
        THEN Slice(s, w, e) ELSE ""

\* the first pattern of lines 816-821 that matches anywhere in text_upper
\* decides; its leftmost match gives the number
PassportByPattern(text_upper) ==
    LET hits(n) == {k \in 0..Len(text_upper) : PnCaptureAt(pn_patterns[n], text_upper, k) # ""}
        first == {n \in 1..Len(pn_patterns) : hits(n) # {}}
        nohits == {k \in 0..Len(text_upper) : NoNumberAt(text_upper, k) # ""}
    IN  IF first # {}
        THEN Strip(PnCaptureAt(pn_patterns[SetMin(first)], text_upper, SetMin(hits(SetMin(first)))))
        ELSE IF nohits # {} THEN Strip(NoNumberAt(text_upper, SetMin(nohits)))
        ELSE ""

pp_label_patterns ==
    << Label(TRUE, <<"PASSPORT", "NO">>, TRUE),
       Label(TRUE, <<"PASSPORT", "NUMBER">>, TRUE),
       Label(FALSE, <<"UTLEVELSZAM">>, FALSE) >>

\* re.search(r'\b([A-Z]{0,2}[0-9]{7,9})\b', s): group 1, or ""
NumberToken(s) ==
    LET starts == {k \in 0..Len(s) : /\ WordBoundary(s, k)
                                     /\ NumberShapeEnd(s, k) # -1
                                     /\ WordBoundary(s, NumberShapeEnd(s, k))}
    IN  IF starts = {} THEN "" ELSE Slice(s, SetMin(starts), NumberShapeEnd(s, SetMin(starts)))

PassportLookahead == 3

\* min(3, len(lines) - i)
PassportStop(n, i) == Min(PassportLookahead, n - i)

\* lines 836-849: the label line and the two lines after it
PassportNearLabel(lines) ==
    LET near(i) == {j \in 0..(PassportStop(Len(lines), i) - 1) :
                       NumberToken(Upper(lines[i + j + 1])) # ""}
        labels == {i \in 0..(Len(lines) - 1) :
                      AnySearch(pp_label_patterns, Upper(lines[i + 1])) /\ near(i) # {}}
    IN  IF labels = {} THEN ""
        ELSE NumberToken(Upper(lines[SetMin(labels) + SetMin(near(SetMin(labels))) + 1]))

\* lines 852-858: a line that reduces to [A-Z]{0,2}[0-9]{7,9}
PassportStandalone(lines) ==
    LET cleaned(i) == Keep(Upper(lines[i]), UpperLetters \cup Digits)
        hits == {i \in 1..Len(lines) : /\ NumberShapeEnd(cleaned(i), 0) = Len(cleaned(i))
                                       /\ Len(cleaned(i)) >= 7}
    IN  IF hits = {} THEN "" ELSE cleaned(SetMin(hits))

\* lines 861-865: re.findall(r'\b(\d{8,9})\b', text), first element
PassportDigitRun(text) ==
    LET end(k) == RunEnd(text, k, Digits)
        hits == {k \in 0..Len(text) : /\ WordBoundary(text, k)
                                      /\ end(k) - k >= 8 /\ end(k) - k <= 9
                                      /\ WordBoundary(text, end(k))}
    IN  IF hits = {} THEN "" ELSE Slice(text, SetMin(hits), end(SetMin(hits)))

ExtractPassportNumber(text, lines) ==
    IF PassportByPattern(Upper(text)) # "" THEN PassportByPattern(Upper(text))
    ELSE IF PassportNearLabel(lines) # "" THEN PassportNearLabel(lines)
    ELSE IF PassportStandalone(lines) # "" THEN PassportStandalone(lines)
    ELSE PassportDigitRun(text)

dob_label_patterns ==
    << Label(FALSE, <<"DATE", "OF", "BIRTH">>, FALSE),
       Label(FALSE, <<"BIRTH", "DATE">>, FALSE),
       Label(TRUE, <<"DOB">>, TRUE),
       Label(FALSE, <<"SZULETESI">>, FALSE),
       Label(FALSE, <<"NE", "LE">>, FALSE),
       Label(FALSE, <<"DATA", "NASTERII">>, FALSE) >>

MonthNames == <<"JAN", "FEB", "MAR", "APR", "MAY", "JUN",
                "JUL", "AUG", "SEP", "OCT", "NOV", "DEC">>

TwoDigits(n) == IF n < 10 THEN "0" \o Ch(DigitSeq, n + 1)
                ELSE Ch(DigitSeq, (n \div 10) + 1) \o Ch(DigitSeq, (n % 10) + 1)

\* month_map.get(month_str, '01')
month_map_get(month_str) ==
    LET hit == {m \in 1..12 : MonthNames[m] = month_str}
    IN  IF hit = {} THEN "01" ELSE TwoDigits(CHOOSE m \in hit : TRUE)

DateSeparators == {"/", "-", "."}

\* (\d{2})[/\-\.](\d{2})[/\-\.](\d{4}) matches at offset k
NumericDateAt(s, k, seps) ==
    /\ k + 10 <= Len(s)
    /\ AllIn(Slice(s, k, k + 2), Digits) /\ At(s, k + 2) \in seps
    /\ AllIn(Slice(s, k + 3, k + 5), Digits) /\ At(s, k + 5) \in seps
    /\ AllIn(Slice(s, k + 6, k + 10), Digits)

DateAt(s, k) == Slice(s, k, k + 2) \o "/" \o Slice(s, k + 3, k + 5) \o "/" \o Slice(s, k + 6, k + 10)

\* (\d{1,2})\s*([A-Z]{3})[/\s]*([A-Z]{3})?\s*(\d{2,4}) from offset k with a day
\* of nd digits and the optional second word taken (opt) or not: the groups,
\* or None
MonthDateTry(s, k, nd, opt) ==
    LET a == RunEnd(s, k + nd, Whitespace)
        b == RunEnd(s, a + 3, {"/"} \cup Whitespace)
        c == IF opt THEN RunEnd(s, b + 3, Whitespace) ELSE b
        y == Min(RunEnd(s, c, Digits) - c, 4)
    IN  IF /\ k + nd <= Len(s) /\ AllIn(Slice(s, k, k + nd), Digits)
           /\ IsExactly(Slice(s, a, a + 3), UpperLetters, 3)
           /\ (opt => IsExactly(Slice(s, b, b + 3), UpperLetters, 3))
           /\ y >= 2
        THEN [day |-> Slice(s, k, k + nd), month_str |-> Slice(s, a, a + 3),
              year |-> Slice(s, c, c + y)]
        ELSE None

\* the match from offset k, in the order the regex engine tries the choices
MonthDateAt(s, k) ==
    IF MonthDateTry(s, k, 2, TRUE) # None THEN MonthDateTry(s, k, 2, TRUE)
    ELSE IF MonthDateTry(s, k, 2, FALSE) # None THEN MonthDateTry(s, k, 2, FALSE)
    ELSE IF MonthDateTry(s, k, 1, TRUE) # None THEN MonthDateTry(s, k, 1, TRUE)
    ELSE MonthDateTry(s, k, 1, FALSE)

\* lines 901-908: the date built from the groups
MonthDate(m) ==
    LET year == IF Len(m.year) = 2
                THEN (IF ToInt(m.year) <= PivotYear THEN "20" ELSE "19") \o m.year
                ELSE m.year
    IN  (IF Len(m.day) < 2 THEN "0" \o m.day ELSE m.day) \o "/"
        \o month_map_get(m.month_str) \o "/" \o year

\* the date found in the three lines from label line i, or ""
LabelledDateAt(lines, i) ==
    LET search_text == Join(SubSeq(lines, i + 1, Min(i + 3, Len(lines))), " ")
        numeric == {k \in 0..Len(search_text) : NumericDateAt(search_text, k, DateSeparators)}
        upper == Upper(search_text)
        month == {k \in 0..Len(upper) : MonthDateAt(upper, k) # None}
    IN  IF numeric # {} THEN DateAt(search_text, SetMin(numeric))
        ELSE IF month # {} THEN MonthDate(MonthDateAt(upper, SetMin(month)))
        ELSE ""

LabelledDate(lines) ==
    LET hits == {i \in 0..(Len(lines) - 1) :
                    /\ AnySearch(dob_label_patterns, Upper(lines[i + 1]))
                    /\ LabelledDateAt(lines, i) # ""}
    IN  IF hits = {} THEN "" ELSE LabelledDateAt(lines, SetMin(hits))

MinBirthYear == 1940
MaxBirthYear == 2020

\* re.findall(r'(\d{2})/(\d{2})/(\d{4})', text) from offset k: the offsets of
\* the successive matches
RECURSIVE SlashDates(_, _)
SlashDates(text, k) ==
    LET hits == {j \in k..(Len(text) - 10) : NumericDateAt(text, j, {"/"})}
    IN  IF hits = {} THEN <<>>
        ELSE <<SetMin(hits)>> \o SlashDates(text, SetMin(hits) + 10)

\* lines 913-921
DateAnywhere(text) ==
    LET plausible == SelectSeq(SlashDates(text, 0),
                               LAMBDA k : /\ MinBirthYear < ToInt(Slice(text, k + 6, k + 10))
                                          /\ ToInt(Slice(text, k + 6, k + 10)) < MaxBirthYear)
    IN  IF plausible = <<>> THEN "" ELSE DateAt(text, plausible[1])

ExtractDob(text, lines) ==
    IF LabelledDate(lines) # "" THEN LabelledDate(lines) ELSE DateAnywhere(text)

gender_label_patterns ==
    << Label(TRUE, <<"SEX">>, TRUE), Label(TRUE, <<"GENDER">>, TRUE),
       Label(TRUE, <<"NEM">>, TRUE), Label(TRUE, <<"SEXE">>, TRUE),
       Label(TRUE, <<"SEXUARE">>, TRUE) >>

MF == {"M", "F"}
SlashOrSpace == {"/"} \cup Whitespace

\* [/\s]([MF])[/\s]|[/\s]([MF])$|^([MF])[/\s]|\b([MF])\b from offset k: the
\* letter of the first alternative that matches, or ""
SameLineMFAt(s, k) ==
    IF At(s, k) \in SlashOrSpace /\ At(s, k + 1) \in MF /\ At(s, k + 2) \in SlashOrSpace
        THEN At(s, k + 1)
    ELSE IF At(s, k) \in SlashOrSpace /\ At(s, k + 1) \in MF /\ k + 2 = Len(s)
        THEN At(s, k + 1)
    ELSE IF k = 0 /\ At(s, 0) \in MF /\ At(s, 1) \in SlashOrSpace THEN At(s, 0)
    ELSE IF WordBoundary(s, k) /\ At(s, k) \in MF /\ WordBoundary(s, k + 1) THEN At(s, k)
    ELSE ""

SameLineMF(s) ==
    LET hits == {k \in 0..Len(s) : SameLineMFAt(s, k) # ""}
    IN  IF hits = {} THEN "" ELSE SameLineMFAt(s, SetMin(hits))

\* lines 947-960 for one following line
NextLineGender(next_upper) ==
    IF next_upper \in MF THEN next_upper
    ELSE IF next_upper = "MALE" THEN "M"
    ELSE IF next_upper = "FEMALE" THEN "F"
    \* ^([MF])[/\s]|[/\s]([MF])$
    ELSE IF At(next_upper, 0) \in MF /\ At(next_upper, 1) \in SlashOrSpace
        THEN At(next_upper, 0)
    ELSE IF /\ Len(next_upper) >= 2
            /\ At(next_upper, Len(next_upper) - 2) \in SlashOrSpace
            /\ At(next_upper, Len(next_upper) - 1) \in MF
        THEN At(next_upper, Len(next_upper) - 1)
    ELSE ""

GenderLookahead == 4

\* min(4, len(lines) - i)
GenderStop(n, i) == Min(GenderLookahead, n - i)

\* the gender read at label line i: on the line itself, else on the next lines
GenderAtLabel(lines, i) ==
    LET near == {j \in 1..(GenderStop(Len(lines), i) - 1) :
                    NextLineGender(Upper(Strip(lines[i + j + 1]))) # ""}
    IN  IF SameLineMF(Upper(lines[i + 1])) # "" THEN SameLineMF(Upper(lines[i + 1]))
        ELSE IF near # {} THEN NextLineGender(Upper(Strip(lines[i + SetMin(near) + 1])))
        ELSE ""

LabelledGender(lines) ==
    LET hits == {i \in 0..(Len(lines) - 1) :
                    /\ AnySearch(gender_label_patterns, Upper(lines[i + 1]))
                    /\ GenderAtLabel(lines, i) # ""}
    IN  IF hits = {} THEN "" ELSE GenderAtLabel(lines, SetMin(hits))

\* re.search(r'\bX\s*/\s*Y\b', s)
SlashPair(s, x, y) ==
    \E k \in 0..Len(s) :
        LET a == RunEnd(s, k + 1, Whitespace)
            b == RunEnd(s, a + 1, Whitespace)
        IN  /\ WordBoundary(s, k) /\ At(s, k) = x /\ At(s, a) = "/" /\ At(s, b) = y
            /\ WordBoundary(s, b + 1)

\* ExtractGender with the word MALE deciding wherever it stands
ExtractGender_male_keyword_first(text, lines) ==
    LET text_upper == Upper(text)
    IN  IF LabelledGender(lines) # "" THEN LabelledGender(lines)
        ELSE IF SlashPair(text_upper, "F", "M") THEN "F"
        ELSE IF SlashPair(text_upper, "M", "F") THEN "M"
        ELSE IF Search(Label(TRUE, <<"MALE">>, TRUE), text_upper) THEN "M"
        ELSE IF Search(Label(TRUE, <<"FEMALE">>, TRUE), text_upper) THEN "F"
        ELSE ""

\* The last fallback of the source (lines 986-992) looks for Hebrew letters,
\* which no ASCII text contains: it leaves gender empty here.
ExtractGender(text, lines) ==
    LET text_upper == Upper(text)
    IN  IF LabelledGender(lines) # "" THEN LabelledGender(lines)
        ELSE IF SlashPair(text_upper, "F", "M") THEN "F"
        ELSE IF SlashPair(text_upper, "M", "F") THEN "M"
        ELSE IF /\ Search(Label(TRUE, <<"MALE">>, TRUE), text_upper)
                /\ ~Search(Label(TRUE, <<"FEMALE">>, TRUE), text_upper) THEN "M"
        ELSE IF Search(Label(TRUE, <<"FEMALE">>, TRUE), text_upper) THEN "F"
        ELSE ""

\* country_codes, in the order of the dict
country_codes ==
    << <<"HUNGARIAN", "HUN">>, <<"HUNGARY", "HUN">>, <<"MAGYAR", "HUN">>,
       <<"ISRAELI", "ISR">>, <<"ISRAEL", "ISR">>,
       <<"AMERICAN", "USA">>, <<"UNITED STATES", "USA">>,
       <<"BRITISH", "GBR">>, <<"UNITED KINGDOM", "GBR">>,
       <<"GERMAN", "DEU">>, <<"GERMANY", "DEU">>,
       <<"FRENCH", "FRA">>, <<"FRANCE", "FRA">>,
       <<"ITALIAN", "ITA">>, <<"ITALY", "ITA">>,
       <<"SPANISH", "ESP">>, <<"SPAIN", "ESP">>,
       <<"CANADIAN", "CAN">>, <<"CANADA", "CAN">>,
       <<"AUSTRALIAN", "AUS">>, <<"AUSTRALIA", "AUS">>,
       <<"ROMANIAN", "ROU">>, <<"ROMANIA", "ROU">>, <<"ROMANA", "ROU">>,
       <<"POLISH", "POL">>, <<"POLAND", "POL">>,
       <<"UKRAINIAN", "UKR">>, <<"UKRAINE", "UKR">>,
       <<"RUSSIAN", "RUS">>, <<"RUSSIA", "RUS">>,
       <<"MOLDOVAN", "MDA">>, <<"MOLDOVA", "MDA">> >>

\* the code of the first country name of the dict that occurs in s, or ""
CountryIn(s) ==
    LET hits == {n \in 1..Len(country_codes) : Contains(s, country_codes[n][1])}
    IN  IF hits = {} THEN "" ELSE country_codes[SetMin(hits)][2]

\* the third label of the source is a Hungarian word with accented letters
\* only, which no ASCII text contains
nationality_label_patterns ==
    << Label(TRUE, <<"NATIONALITY">>, TRUE), Label(TRUE, <<"CITIZENSHIP">>, TRUE) >>

NationalityAtLabel(lines, i) ==
    IF CountryIn(Upper(lines[i + 1])) # "" THEN CountryIn(Upper(lines[i + 1]))
    ELSE IF i + 1 < Len(lines) THEN CountryIn(Strip(Upper(lines[i + 2])))
    ELSE ""

LabelledNationality(lines) ==
    LET hits == {i \in 0..(Len(lines) - 1) :
                    /\ AnySearch(nationality_label_patterns, Upper(lines[i + 1]))
                    /\ NationalityAtLabel(lines, i) # ""}
    IN  IF hits = {} THEN "" ELSE NationalityAtLabel(lines, SetMin(hits))

KnownCodes == {"HUN", "ISR", "USA", "GBR", "DEU", "FRA", "ITA", "ESP", "CAN", "AUS",
               "ROU", "POL", "UKR", "RUS", "MDA"}

\* re.search(r'\b(HUN|ISR|...)\b', text_upper): group 1, or ""
CodeAnywhere(text_upper) ==
    LET hits == {k \in 0..Len(text_upper) :
                    /\ WordBoundary(text_upper, k)
                    /\ Slice(text_upper, k, k + 3) \in KnownCodes
                    /\ WordBoundary(text_upper, k + 3)}
    IN  IF hits = {} THEN "" ELSE Slice(text_upper, SetMin(hits), SetMin(hits) + 3)

ExtractNationality(text, lines) ==
    IF LabelledNationality(lines) # "" THEN LabelledNationality(lines)
    ELSE IF CodeAnywhere(Upper(text)) # "" THEN CodeAnywhere(Upper(text))
    ELSE CountryIn(Upper(text))

FewFlags == 2

\* the record returned whatever was found, without the test of line 1085
Tier2Record_always(last_name, name_parts, passport_num, dob, gender, nationality) ==
    PassportData(IF name_parts = <<>> THEN "" ELSE name_parts[1],
                 IF Len(name_parts) > 1 THEN Join(Tail(name_parts), " ") ELSE "",
                 last_name, gender, dob, nationality, passport_num, ConfTextMany,
                 ListOfSet((IF last_name = "" THEN <<"last_name">> ELSE <<>>)
                           \o (IF name_parts = <<>> THEN <<"first_name">> ELSE <<>>)
                           \o (IF passport_num = "" THEN <<"passport_number">> ELSE <<>>)
                           \o (IF dob = "" THEN <<"date_of_birth">> ELSE <<>>)
                           \o (IF gender = "" THEN <<"gender">> ELSE <<>>)
                           \o (IF nationality = "" THEN <<"nationality">> ELSE <<>>)))

\* Tier2Record with the higher confidence kept up to three flagged fields
Tier2Record_three_flags_as_few(last_name, name_parts, passport_num, dob, gender, nationality) ==
    LET first_name == IF name_parts = <<>> THEN "" ELSE name_parts[1]
        middle_name == IF Len(name_parts) > 1 THEN Join(Tail(name_parts), " ") ELSE ""
        low_confidence_fields ==
            (IF last_name = "" THEN <<"last_name">> ELSE <<>>)
            \o (IF first_name = "" THEN <<"first_name">> ELSE <<>>)
            \o (IF passport_num = "" THEN <<"passport_number">> ELSE <<>>)
            \o (IF dob = "" THEN <<"date_of_birth">> ELSE <<>>)
            \o (IF gender = "" THEN <<"gender">> ELSE <<>>)
            \o (IF nationality = "" THEN <<"nationality">> ELSE <<>>)
    IN  IF last_name # "" \/ first_name # "" \/ passport_num # ""
        THEN PassportData(first_name, middle_name, last_name, gender, dob, nationality,
                          passport_num,
                          IF Len(low_confidence_fields) <= FewFlags + 1 THEN ConfTextFew
                                                                    ELSE ConfTextMany,
                          ListOfSet(low_confidence_fields))
        ELSE None

\* lines 804-809 and 1058-1098: the record built from what the searches found
Tier2Record(last_name, name_parts, passport_num, dob, gender, nationality) ==
    LET first_name == IF name_parts = <<>> THEN "" ELSE name_parts[1]
        middle_name == IF Len(name_parts) > 1 THEN Join(Tail(name_parts), " ") ELSE ""
        low_confidence_fields ==
            (IF last_name = "" THEN <<"last_name">> ELSE <<>>)
            \o (IF first_name = "" THEN <<"first_name">> ELSE <<>>)
            \o (IF passport_num = "" THEN <<"passport_number">> ELSE <<>>)
            \o (IF dob = "" THEN <<"date_of_birth">> ELSE <<>>)
            \o (IF gender = "" THEN <<"gender">> ELSE <<>>)
            \o (IF nationality = "" THEN <<"nationality">> ELSE <<>>)
    IN  IF last_name # "" \/ first_name # "" \/ passport_num # ""
        THEN PassportData(first_name, middle_name, last_name, gender, dob, nationality,
                          passport_num,
                          IF Len(low_confidence_fields) <= FewFlags THEN ConfTextFew
                                                                    ELSE ConfTextMany,
                          ListOfSet(low_confidence_fields))
        ELSE None

ExtractFrom(text, lines) ==
    Tier2Record(ExtractSurname(lines), SplitWs(ExtractGivenNames(lines)),
                ExtractPassportNumber(text, lines), ExtractDob(text, lines),
                ExtractGender(text, lines), ExtractNationality(text, lines))

extract_fields_from_text(text) == ExtractFrom(text, TextLines(text))

-----------------------------------------------------------------------------
(* Reconciliation engine: is_valid_name, is_valid_passport_number and      *)
(* merge_passport_data                                                     *)

garbage_indicators == {"OFISRA", "FISRA", "ISRAEL", "STATE", "PASAPORT", "PASSPORT",
                       "SPRIN", "SUMA", "MAON", "ROMANA", "DOCUMENT", "REPUBLIC"}

Consonants == CharsOf("BCDFGHJKLMNPQRSTVWXYZ")
MaxConsonantRun == 5

is_valid_name(name) ==
    /\ name # "" /\ Len(name) >= 2
    /\ \A g \in garbage_indicators : ~Contains(Upper(name), g)
    \* ^\d and \d$
    /\ At(Upper(name), 0) \notin Digits /\ At(Upper(name), Len(name) - 1) \notin Digits
    /\ ~(Count(name, Letters \cup {" "}) * 10 < Len(name) * 8)
    /\ ~\E k \in 0..Len(name) : RunEnd(Upper(name), k, Consonants) - k > MaxConsonantRun

\* re.match(r'^[A-Z0-9]{7,9}$', pn.upper())
is_valid_passport_number(pn) ==
    /\ pn # ""
    /\ Len(pn) >= 7 /\ Len(pn) <= 9 /\ AllIn(Upper(pn), UpperLetters \cup Digits)

\* choose_name were a plausible text value to beat an implausible MRZ value
choose_name_plausible_first(mrz_val, text_val) ==
    IF mrz_val # "" /\ is_valid_name(mrz_val) THEN mrz_val
    ELSE IF text_val # "" /\ is_valid_name(text_val) THEN text_val
    ELSE IF mrz_val # "" THEN mrz_val ELSE text_val

\* choose_name were an implausible text value to be refused
choose_name_refusing_implausible_text(mrz_val, text_val) ==
    IF mrz_val # "" THEN mrz_val
    ELSE IF text_val # "" /\ is_valid_name(text_val) THEN text_val
    ELSE ""

choose_name(mrz_val, text_val) ==
    IF mrz_val # "" /\ is_valid_name(mrz_val) THEN mrz_val
    ELSE IF mrz_val # "" THEN mrz_val
    ELSE IF text_val # "" /\ is_valid_name(text_val) THEN text_val
    ELSE IF mrz_val # "" THEN mrz_val ELSE text_val

choose_value(mrz_val, text_val) ==
    IF mrz_val # "" THEN mrz_val
    ELSE IF text_val # "" THEN text_val
    ELSE ""

\* the passport number chosen as the other values are: MRZ whenever non-empty
choose_passport_number_mrz_first(mrz_pn, text_pn) ==
    IF mrz_pn # "" THEN mrz_pn ELSE text_pn

choose_passport_number(mrz_pn, text_pn) ==
    IF is_valid_passport_number(mrz_pn) THEN mrz_pn
    ELSE IF is_valid_passport_number(text_pn) THEN text_pn
    ELSE IF mrz_pn # "" THEN mrz_pn ELSE text_pn

\* the recomputation without the gender test of lines 1244-1245
RecomputedFlags_without_gender(merged) ==
    (IF merged.first_name = "" THEN <<"first_name">> ELSE <<>>)
    \o (IF merged.last_name = "" THEN <<"last_name">> ELSE <<>>)
    \o (IF merged.passport_number = "" THEN <<"passport_number">> ELSE <<>>)
    \o (IF merged.date_of_birth = "" THEN <<"date_of_birth">> ELSE <<>>)
    \o (IF merged.nationality = "" THEN <<"nationality">> ELSE <<>>)

\* lines 1235-1247: the flags recomputed from the merged values
RecomputedFlags(merged) ==
    (IF merged.first_name = "" THEN <<"first_name">> ELSE <<>>)
    \o (IF merged.last_name = "" THEN <<"last_name">> ELSE <<>>)
    \o (IF merged.passport_number = "" THEN <<"passport_number">> ELSE <<>>)
    \o (IF merged.date_of_birth = "" THEN <<"date_of_birth">> ELSE <<>>)
    \o (IF merged.gender = "" THEN <<"gender">> ELSE <<>>)
    \o (IF merged.nationality = "" THEN <<"nationality">> ELSE <<>>)

\* lines 1223-1233: the merged record before its flags are recomputed
MergedValues(mrz_data, text_data_) ==
    PassportData(choose_name(mrz_data.first_name, text_data_.first_name),
                 choose_name(mrz_data.middle_name, text_data_.middle_name),
                 choose_name(mrz_data.last_name, text_data_.last_name),
                 choose_value(mrz_data.gender, text_data_.gender),
                 choose_value(mrz_data.date_of_birth, text_data_.date_of_birth),
                 choose_value(mrz_data.nationality, text_data_.nationality),
                 choose_passport_number(mrz_data.passport_number, text_data_.passport_number),
                 Max(mrz_data.confidence, text_data_.confidence),
                 <<>>)

\* merge_passport_data without the early returns of lines 1164-1168: an absent
\* input is merged as a record of empty values
EmptyRecord == PassportData("", "", "", "", "", "", "", 0, <<>>)

merge_without_early_return(mrz_data, text_data_) ==
    IF mrz_data = None /\ text_data_ = None THEN None
    ELSE LET m == IF mrz_data = None THEN EmptyRecord ELSE mrz_data
             t == IF text_data_ = None THEN EmptyRecord ELSE text_data_
         IN  [MergedValues(m, t) EXCEPT !.low_confidence_fields = RecomputedFlags(MergedValues(m, t))]

\* merge_passport_data were the flags of the inputs to be kept: the flags of
\* the MRZ record followed by the recomputed ones
merge_accumulating_flags(mrz_data, text_data_) ==
    IF mrz_data = None /\ text_data_ = None THEN None
    ELSE IF mrz_data = None THEN text_data_
    ELSE IF text_data_ = None THEN mrz_data
    ELSE [MergedValues(mrz_data, text_data_) EXCEPT
             !.low_confidence_fields =
                 mrz_data.low_confidence_fields
                 \o RecomputedFlags(MergedValues(mrz_data, text_data_))]

merge_passport_data(mrz_data, text_data_) ==
    IF mrz_data = None /\ text_data_ = None THEN None
    ELSE IF mrz_data = None THEN text_data_
    ELSE IF text_data_ = None THEN mrz_data
    ELSE [MergedValues(mrz_data, text_data_) EXCEPT
             !.low_confidence_fields = RecomputedFlags(MergedValues(mrz_data, text_data_))]

-----------------------------------------------------------------------------
(* Exceptions: the index expressions of the loops, which raise IndexError  *)
(* when an index they visit is outside the list                            *)

\* strategy 2 reads lines[j] for j in range(i + 1, min(i + 10, len(lines)))
Strategy2Raises(lines) ==
    \E i \in 0..(Len(lines) - 1) :
        /\ IsPartialLine1(Cleaned(lines[i + 1]))
        /\ \E j \in (i + 1)..(ContinuationStop(i, Len(lines)) - 1) : ~ValidIndex(Len(lines), j)

\* strategy 3 reads lines[i] for i in range(line2_idx - 1, max(0, line2_idx - 15), -1)
Strategy3Raises(lines) ==
    \E k \in 1..Len(line2_candidates(lines)) :
        \E i \in (BackwardStop(line2_candidates(lines)[k].idx) + 1)
                    ..(line2_candidates(lines)[k].idx - 1) : ~ValidIndex(Len(lines), i)

\* mrz_lines[0], mrz_lines[1] behind the length guard of extract_from_mrz_lines
ParserRaises(mrz_lines) ==
    /\ ~(Len(mrz_lines) < 2)
    /\ \E i \in {0, 1} : ~ValidIndex(Len(mrz_lines), i)

\* the look-ahead loops of the Tier-2 extractor read lines[i + j]
Tier2Raises(lines) ==
    LET n == Len(lines)
        labelled(pats) == {i \in 0..(n - 1) : AnySearch(pats, Upper(lines[i + 1]))}
    IN  \/ \E i \in labelled(surname_patterns) :
               \E j \in 1..(LookaheadStop(3, n, i) - 1) : ~ValidIndex(n, i + j)
        \/ \E i \in labelled(given_patterns) :
               \E j \in 1..(GivenStop(n, i) - 1) : ~ValidIndex(n, i + j)
        \/ \E i \in labelled(pp_label_patterns) :
               \E j \in 0..(PassportStop(n, i) - 1) : ~ValidIndex(n, i + j)
        \/ \E i \in labelled(gender_label_patterns) :
               \E j \in 1..(GenderStop(n, i) - 1) : ~ValidIndex(n, i + j)
        \/ \E i \in labelled(nationality_label_patterns) :
               i + 1 < n /\ ~ValidIndex(n, i + 1)

-----------------------------------------------------------------------------
(* The engine: process_passport_image from the recognised text on          *)

\* clean_name_output
clean_name_output(name) ==
    IF name = "" THEN "" ELSE Strip(CollapseSpaces(ReplaceChar(name, "-", " ")))

\* the dictionary built for one record at lines 1393-1406
OutputRecord(r) ==
    [first_name |-> clean_name_output(r.first_name),
     middle_name |-> clean_name_output(r.middle_name),
     last_name |-> clean_name_output(r.last_name),
     gender |-> r.gender,
     date_of_birth |-> r.date_of_birth,
     nationality |-> r.nationality,
     passport_number |-> r.passport_number,
     confidence |-> r.confidence,
     low_confidence_fields |-> r.low_confidence_fields]

-----------------------------------------------------------------------------
(* The recognised texts the engine is run on: up to MaxFragments fragments *)
(* of a page, each one or more lines, joined by newlines                   *)

L1_ROTARI == "P<UTOROTARI<DOANI<<OLGA<<<<<<<<<<<<<<<<<<<<<"
L2_VALID == "12345678<9UTO8506151F3001012<<<<<<<<<<<<<<02"
\* month 13 and day 32, sex position a filler, no bare digit run
L2_BAD_DATE == "AB1234567<HUN9013320<2501017<<<<<<<<<<<<<<04"
L1_PARTIAL == "P<ISRRON<<OSNAT<<<<<<<<<"
L1_CONTINUATION == "<<<<<<<<<<<<<<<<<<<<"
\* 43 characters with a digit at the sex position: Line-2 shaped, not validated
L2_SHAPE_ONLY == "12345678<9UTO850615<1F300101<<<<<<<<<<<<<02"
\* no given name, no passport number, no sex
L1_KOVACS == "P<HUNKOVACS<<<<<<<<<<<<<<<<<<<<<<<<<<<<<<<<<"
L2_GAPS == "<<<<<<<<<<HUN9001011<2501017<<<<<<<<<<<<<<04"

Fragments ==
    << L1_ROTARI \o "\n" \o L2_VALID,
       L1_ROTARI \o "\n" \o L2_BAD_DATE,
       L1_PARTIAL \o "\n" \o L1_CONTINUATION \o "\n" \o L2_SHAPE_ONLY,
       L1_KOVACS \o "\n" \o L2_GAPS,
       L2_VALID,
       "SURNAME: SMITH",
       "DATE OF BIRTH\n05 XYZ 96",
       "12345678",
       "HELLO WORLD",
       "GIVEN NAMES\nJOHN PAUL\nSEX\nF\nPASSPORT NO\nAB1234567\nNATIONALITY\nHUNGARIAN" >>

MaxFragments == 2

FragmentSeqs == UNION {[1..n -> 1..Len(Fragments)] : n \in 0..MaxFragments}

TextOf(choice) == Join([k \in 1..Len(choice) |-> Fragments[choice[k]]], "\n")

Texts == {TextOf(choice) : choice \in FragmentSeqs}

-----------------------------------------------------------------------------
(* process_passport_image, one step at a time                              *)

EngineInit ==
    /\ full_text \in Texts
    /\ lib_installed \in BOOLEAN
    /\ pc = "start"
    /\ mrz_pairs = <<>>
    /\ strategies_run = <<>>
    /\ mrz_results = <<>>
    /\ text_data = None
    /\ merge_idx = 0
    /\ results = <<>>
    /\ output = <<>>
    /\ raised = ""

Raise(exception) ==
    /\ pc' = "raised"
    /\ raised' = exception
    /\ UNCHANGED merge_vars /\ UNCHANGED <<full_text, lib_installed, mrz_pairs, strategies_run, mrz_results,
                   text_data, merge_idx, results, output>>

\* lines 1325-1327: no text, empty result
NoText ==
    /\ pc = "start" /\ full_text = ""
    /\ output' = <<>>
    /\ pc' = "done"
    /\ UNCHANGED merge_vars /\ UNCHANGED <<full_text, lib_installed, mrz_pairs, strategies_run, mrz_results,
                   text_data, merge_idx, results, raised>>

\* strategy 1 without the return of lines 240-241: strategy 2 always follows
LocateDirect_without_return ==
    /\ pc = "start" /\ full_text # ""
    /\ strategies_run' = Append(strategies_run, 1)
    /\ mrz_pairs' = Strategy1Pairs(SplitLines(full_text))
    /\ pc' = "split"
    /\ UNCHANGED merge_vars
    /\ UNCHANGED <<full_text, lib_installed, mrz_results, text_data, merge_idx,
                   results, output, raised>>

\* find_mrz_lines, strategy 1; lines 240-241 return its pairs when there are any
LocateDirect ==
    /\ pc = "start" /\ full_text # ""
    /\ strategies_run' = Append(strategies_run, 1)
    /\ mrz_pairs' = Strategy1Pairs(SplitLines(full_text))
    /\ pc' = IF mrz_pairs' # <<>> THEN "parse" ELSE "split"
    /\ UNCHANGED merge_vars /\ UNCHANGED <<full_text, lib_installed, mrz_results, text_data, merge_idx,
                   results, output, raised>>

\* find_mrz_lines, strategy 2; lines 280-281 return its pairs when there are any
LocateSplit ==
    /\ pc = "split"
    /\ IF Strategy2Raises(SplitLines(full_text)) THEN Raise("IndexError")
       ELSE /\ strategies_run' = Append(strategies_run, 2)
            /\ mrz_pairs' = Strategy2Pairs(SplitLines(full_text))
            /\ pc' = IF mrz_pairs' # <<>> THEN "parse" ELSE "backward"
            /\ UNCHANGED merge_vars /\ UNCHANGED <<full_text, lib_installed, mrz_results, text_data, merge_idx,
                           results, output, raised>>

\* find_mrz_lines, strategy 3 and the final return
LocateBackward ==
    /\ pc = "backward"
    /\ IF Strategy3Raises(SplitLines(full_text)) THEN Raise("IndexError")
       ELSE /\ strategies_run' = Append(strategies_run, 3)
            /\ mrz_pairs' = Strategy3Pairs(SplitLines(full_text))
            /\ pc' = "parse"
            /\ UNCHANGED merge_vars /\ UNCHANGED <<full_text, lib_installed, mrz_results, text_data, merge_idx,
                           results, output, raised>>

\* lines 1341-1349: one pass of the loop over the located pairs
ParsePair ==
    /\ pc = "parse" /\ Len(mrz_results) < Len(mrz_pairs)
    /\ IF ParserRaises(mrz_pairs[Len(mrz_results) + 1]) THEN Raise("IndexError")
       ELSE /\ mrz_results' = Append(mrz_results,
                                  extract_from_mrz_lines(mrz_pairs[Len(mrz_results) + 1],
                                                         lib_installed))
            /\ UNCHANGED merge_vars /\ UNCHANGED <<full_text, lib_installed, pc, mrz_pairs, strategies_run,
                           text_data, merge_idx, results, output, raised>>

\* line 1357: Tier 2 runs once, on the whole text, after the pairs are parsed
ExtractText ==
    /\ pc = "parse" /\ Len(mrz_results) = Len(mrz_pairs)
    /\ IF Tier2Raises(TextLines(full_text)) THEN Raise("IndexError")
       ELSE /\ text_data' = extract_fields_from_text(full_text)
            /\ pc' = "merge"
            /\ UNCHANGED merge_vars /\ UNCHANGED <<full_text, lib_installed, mrz_pairs, strategies_run,
                           mrz_results, merge_idx, results, output, raised>>

\* the loop were it to put each merged record in front of the earlier ones
MergeNext_prepending ==
    /\ pc = "merge" /\ mrz_results # <<>>
    /\ merge_idx < Len(mrz_results)
    /\ LET merged == merge_passport_data(mrz_results[merge_idx + 1], text_data)
       IN  results' = IF merged # None THEN <<merged>> \o results ELSE results
    /\ merge_idx' = merge_idx + 1
    /\ pc' = IF merge_idx' = Len(mrz_results) THEN "output" ELSE "merge"
    /\ UNCHANGED merge_vars
    /\ UNCHANGED <<full_text, lib_installed, mrz_pairs, strategies_run, mrz_results,
                   text_data, output, raised>>

\* the loop were each merge to fill the Tier-2 record in place
MergeNext_filling_the_text_record ==
    /\ pc = "merge" /\ mrz_results # <<>>
    /\ merge_idx < Len(mrz_results)
    /\ LET merged == merge_passport_data(mrz_results[merge_idx + 1], text_data)
       IN  /\ results' = IF merged # None THEN Append(results, merged) ELSE results
           /\ text_data' = IF text_data # None THEN merged ELSE text_data
    /\ merge_idx' = merge_idx + 1
    /\ pc' = IF merge_idx' = Len(mrz_results) THEN "output" ELSE "merge"
    /\ UNCHANGED merge_vars
    /\ UNCHANGED <<full_text, lib_installed, mrz_pairs, strategies_run, mrz_results,
                   output, raised>>

\* lines 1360-1365: one pass of the loop over the MRZ results
MergeNext ==
    /\ pc = "merge" /\ mrz_results # <<>>
    /\ merge_idx < Len(mrz_results)
    /\ LET merged == merge_passport_data(mrz_results[merge_idx + 1], text_data)
       IN  results' = IF merged # None THEN Append(results, merged) ELSE results
    /\ merge_idx' = merge_idx + 1
    /\ pc' = IF merge_idx' = Len(mrz_results) THEN "output" ELSE "merge"
    /\ UNCHANGED merge_vars /\ UNCHANGED <<full_text, lib_installed, mrz_pairs, strategies_run, mrz_results,
                   text_data, output, raised>>

\* lines 1366-1369: no MRZ result, the Tier-2 record alone when there is one
TextOnly ==
    /\ pc = "merge" /\ mrz_results = <<>>
    /\ results' = IF text_data # None THEN Append(results, text_data) ELSE results
    /\ pc' = "output"
    /\ UNCHANGED merge_vars /\ UNCHANGED <<full_text, lib_installed, mrz_pairs, strategies_run, mrz_results,
                   text_data, merge_idx, output, raised>>

\* lines 1393-1406: the list of dictionaries returned
Return ==
    /\ pc = "output"
    /\ output' = [k \in 1..Len(results) |-> OutputRecord(results[k])]
    /\ pc' = "done"
    /\ UNCHANGED merge_vars /\ UNCHANGED <<full_text, lib_installed, mrz_pairs, strategies_run, mrz_results,
                   text_data, merge_idx, results, raised>>

EngineNext ==
    \/ NoText \/ LocateDirect \/ LocateSplit \/ LocateBackward
    \/ ParsePair \/ ExtractText \/ MergeNext \/ TextOnly \/ Return

\* the engine leaves the variables of the reconciler's own specification alone
Init == EngineInit /\ m_mrz = None /\ m_text = None /\ m_out = None /\ m_pc = "idle"

Next == EngineNext

Spec == Init /\ [][Next]_vars

-----------------------------------------------------------------------------
(* The reconciler on its own: merge_passport_data applied to the records   *)
(* the Tier-1 parser builds from MRZ pairs and the records the Tier-2      *)
(* extractor builds from what its searches find, None included             *)

\* name sections of Line 1: given and middle names, no given name, no
\* surname, names the plausibility check of is_valid_name rejects
MergeNameSections == {"KOVACS<<ANNA<MARIA", "KOVACS", "<<ANNA", "ISRAELI<<SUMA"}
MergeLine1s == {Ljust("P<HUN" \o n, MrzWidth, Filler) : n \in MergeNameSections}

\* Line 2: number valid, too short, absent; nationality present or not;
\* birth date valid, out of range, absent; sex present or not
MergeLine2s ==
    {Ljust(pn \o "<" \o nat \o dob \o "0" \o sex \o "2501017", MrzWidth, Filler) :
        pn \in {"AB1234567", "1234<<<<<", "<<<<<<<<<"}, nat \in {"HUN", "<<<"},
        dob \in {"850615", "901332", "<<<<<<"}, sex \in {"F", "<"}}

MrzInputs == {parse_mrz_manual(l1, l2) : l1 \in MergeLine1s, l2 \in MergeLine2s} \cup {None}

TextInputs ==
    {Tier2Record(last, given, pn, dob, gender, nat) :
        last \in {"", "SMITH"}, given \in {<<>>, <<"JOHN", "PAUL">>, <<"ROMANA">>},
        pn \in {"", "123456", "12345678"}, dob \in {"", "05/01/1996"},
        gender \in {"", "M"}, nat \in {"", "UTO"}}

MergeInit ==
    /\ m_mrz \in MrzInputs
    /\ m_text \in TextInputs
    /\ m_out = None
    /\ m_pc = "call"
    /\ full_text = "" /\ lib_installed = FALSE /\ pc = "idle"
    /\ mrz_pairs = <<>> /\ strategies_run = <<>> /\ mrz_results = <<>>
    /\ text_data = None /\ merge_idx = 0 /\ results = <<>> /\ output = <<>>
    /\ raised = ""

\* one call of merge_passport_data
Reconcile ==
    /\ m_pc = "call"
    /\ m_out' = merge_passport_data(m_mrz, m_text)
    /\ m_pc' = "returned"
    /\ UNCHANGED <<m_mrz, m_text>>
    /\ UNCHANGED engine_vars

NextMerge == Reconcile

SpecMerge == MergeInit /\ [][NextMerge]_vars

-----------------------------------------------------------------------------
(* Properties of the reconciler, checked under SpecMerge                   *)

FlagSet(r) == {r.low_confidence_fields[i] : i \in 1..Len(r.low_confidence_fields)}

BothPresent == m_pc = "returned" /\ m_mrz # None /\ m_text # None

\* C2: when both records are present, every field among first_name,
\* middle_name, last_name, gender, date_of_birth and nationality whose MRZ
\* value is non-empty has the MRZ value in the merged record, whatever the text
\* value is and whether or not an MRZ name passes the plausibility check.
C2_MrzPriority ==
    BothPresent =>
        \A f \in {"first_name", "middle_name", "last_name", "gender", "date_of_birth",
                  "nationality"} :
            m_mrz[f] # "" => m_out[f] = m_mrz[f]

\* an implausible MRZ surname kept over a different, plausible text surname
C2_Witness ==
    /\ BothPresent
    /\ m_mrz.last_name # "" /\ ~is_valid_name(m_mrz.last_name)
    /\ m_text.last_name # "" /\ is_valid_name(m_text.last_name)
    /\ m_text.last_name # m_mrz.last_name
    /\ m_out.last_name = m_mrz.last_name

\* C3: merge returns no record when both inputs are absent, and the one input
\* that is present, with its values, confidence and flags, when the other is
\* absent.
C3_AbsentInputs ==
    m_pc = "returned" =>
        /\ (m_mrz = None /\ m_text = None => m_out = None)
        /\ (m_mrz # None /\ m_text = None => m_out = m_mrz)
        /\ (m_mrz = None /\ m_text # None => m_out = m_text)

\* an MRZ record that flags a non-empty value is returned as it is
C3_Witness ==
    /\ m_pc = "returned" /\ m_mrz # None /\ m_text = None
    /\ m_out = m_mrz
    /\ m_mrz.date_of_birth # "" /\ "date_of_birth" \in FlagSet(m_mrz)

\* ^[A-Z0-9]{7,9}$
MatchesNumberShape(pn) == Len(pn) >= 7 /\ Len(pn) <= 9 /\ AllIn(pn, UpperLetters \cup Digits)

EmptyOf(r, fields) == {f \in fields : r[f] = ""}

NoDuplicates(seq) == \A i, j \in 1..Len(seq) : seq[i] = seq[j] => i = j

\* C5 as stated: after a merge of two present records the flags of the result
\* name exactly the fields of the merged record that are empty, without
\* duplicates.
C5_FlagsAreTheEmptyFields ==
    BothPresent =>
        /\ FlagSet(m_out) = EmptyOf(m_out, Fields)
        /\ NoDuplicates(m_out.low_confidence_fields)

\* C5 amended: after a merge of two present records the flags of the result
\* name exactly the fields among first_name, last_name, passport_number,
\* date_of_birth, gender and nationality that are empty in the merged record,
\* without duplicates and whatever the flags of the inputs are; middle_name is
\* never named.
C5_FlagsRecomputed ==
    BothPresent =>
        /\ FlagSet(m_out) = EmptyOf(m_out, {FlagOrder[i] : i \in 1..Len(FlagOrder)})
        /\ NoDuplicates(m_out.low_confidence_fields)

\* a flag of the MRZ record on a non-empty value is dropped, and a flag both
\* inputs carry appears once
C5_Witness ==
    /\ BothPresent
    /\ m_mrz.date_of_birth # "" /\ "date_of_birth" \in FlagSet(m_mrz)
    /\ "date_of_birth" \notin FlagSet(m_out)
    /\ "gender" \in FlagSet(m_mrz) /\ "gender" \in FlagSet(m_text)
    /\ "gender" \in FlagSet(m_out)
    /\ m_out.middle_name = ""

-----------------------------------------------------------------------------
(* Properties of the engine, checked under Spec                            *)

Flaggable == {FlagOrder[i] : i \in 1..Len(FlagOrder)}

Done == pc = "done"

\* C1 as stated: in every record of the output each field is empty if and
\* only if its name is in low_confidence_fields.
C1_FlagIffEmpty ==
    Done => \A k \in 1..Len(output) :
                \A f \in Fields : (output[k][f] = "") <=> (f \in FlagSet(output[k]))

\* C1 amended: in every record of the output, every field among first_name,
\* last_name, passport_number, date_of_birth, gender and nationality that is
\* empty is named in low_confidence_fields, and no other name than these six is
\* (middle_name never); in a record of Tier 2 alone or of a merge of both the
\* named fields are exactly the empty ones of the six, while a record of the
\* MRZ parser alone may also name a non-empty field that failed validation.
C1_EmptyIsFlagged ==
    Done => \A k \in 1..Len(output) :
                /\ FlagSet(output[k]) \subseteq Flaggable
                /\ EmptyOf(output[k], Flaggable) \subseteq FlagSet(output[k])
                /\ text_data # None => FlagSet(output[k]) = EmptyOf(output[k], Flaggable)

\* a record of the MRZ parser alone that names a non-empty date it could not
\* validate, next to an empty field it names and an empty middle name it does not
C1_Witness ==
    /\ Done /\ text_data = None /\ Len(output) = 1
    /\ output[1].date_of_birth # "" /\ "date_of_birth" \in FlagSet(output[1])
    /\ output[1].gender = "" /\ "gender" \in FlagSet(output[1])
    /\ output[1].middle_name = ""

\* C6: for a non-empty text the engine returns, in the Locator's order, one
\* record per located pair, each the merge of the parse of that pair with the
\* one Tier-2 record of the text; with no pair it returns the Tier-2 record
\* alone, or nothing when there is none.
C6_OutputComposition ==
    Done /\ full_text # "" =>
        /\ mrz_pairs = find_mrz_lines(full_text)
        /\ text_data = extract_fields_from_text(full_text)
        /\ IF mrz_pairs # <<>>
           THEN /\ Len(output) = Len(mrz_pairs)
                /\ \A k \in 1..Len(mrz_pairs) :
                       output[k] = merge_passport_data(
                                       extract_from_mrz_lines(mrz_pairs[k], lib_installed),
                                       text_data)
           ELSE output = IF text_data # None THEN <<text_data>> ELSE <<>>

\* two located pairs, each merged with the same Tier-2 record, give two
\* different records
C6_Witness ==
    /\ Done /\ Len(mrz_pairs) = 2 /\ text_data # None
    /\ Len(output) = 2 /\ output[1] # output[2]

\* what the text shows, read off the text itself
MrzShapedLine(line) == StartsWith(Cleaned(line), "P<") \/ Line2Shape(Cleaned(line))

NoMrzShapedLine(text) ==
    \A i \in 1..Len(SplitLines(text)) : ~MrzShapedLine(SplitLines(text)[i])

FieldLabelPatterns ==
    surname_patterns \o given_patterns \o pp_label_patterns \o dob_label_patterns
    \o gender_label_patterns \o nationality_label_patterns

NoFieldLabel(text) ==
    /\ \A i \in 1..Len(TextLines(text)) :
           ~AnySearch(FieldLabelPatterns, Upper(TextLines(text)[i]))
    /\ PassportByPattern(Upper(text)) = ""

\* the line, its non-alphanumerics dropped, is [A-Z]{0,2}[0-9]{7,9}
ReducesToNumber(line) ==
    LET c == Keep(Upper(line), UpperLetters \cup Digits)
    IN  \E l \in 0..2 : /\ Len(c) - l >= 7 /\ Len(c) - l <= 9
                        /\ AllIn(Slice(c, 0, l), UpperLetters) /\ AllIn(From(c, l), Digits)

\* \b\d{8,9}\b somewhere in the text
HasDigitRun(text) ==
    \E k \in 0..(Len(text) - 1) : \E n \in {8, 9} :
        /\ At(text, k - 1) \notin WordChars
        /\ Len(Slice(text, k, k + n)) = n /\ AllIn(Slice(text, k, k + n), Digits)
        /\ At(text, k + n) \notin WordChars

NoBareNumber(text) ==
    /\ \A i \in 1..Len(TextLines(text)) : ~ReducesToNumber(TextLines(text)[i])
    /\ ~HasDigitRun(text)

\* C7 as stated: for a text with no MRZ-shaped line and no recognizable field
\* label the engine returns an empty list.
C7_NoLabelsNoRecord ==
    Done /\ NoMrzShapedLine(full_text) /\ NoFieldLabel(full_text) => output = <<>>

\* C7 amended: for a text with no MRZ-shaped line, no recognizable field label,
\* no line that reduces to at most two letters followed by 7 to 9 digits and no
\* bare run of 8 or 9 digits, Tier 2 returns no record and the engine returns an
\* empty list.
C7_NothingToReadNoRecord ==
    Done /\ NoMrzShapedLine(full_text) /\ NoFieldLabel(full_text) /\ NoBareNumber(full_text)
        => text_data = None /\ output = <<>>

\* a non-empty text of that kind has gone through the engine
C7_Witness ==
    /\ Done /\ full_text # ""
    /\ NoMrzShapedLine(full_text) /\ NoFieldLabel(full_text) /\ NoBareNumber(full_text)
    /\ strategies_run = <<1, 2, 3>> /\ output = <<>>

IsRecord(r) ==
    DOMAIN r = Fields \cup {"confidence", "low_confidence_fields"}

\* C8: whatever the text (empty, without MRZ pairs, without labelled fields,
\* with garbled MRZ lines), no step of the engine raises: the Locator returns a
\* list of pairs, the parser and the Tier-2 extractor a record or None, the
\* reconciler a record, and the engine a list of records, empty for the empty
\* text.
C8_NoException ==
    /\ pc \in {"start", "split", "backward", "parse", "merge", "output", "done"}
    /\ raised = ""
    /\ \A k \in 1..Len(mrz_pairs) : Len(mrz_pairs[k]) = 2
    /\ \A k \in 1..Len(mrz_results) : mrz_results[k] = None \/ IsRecord(mrz_results[k])
    /\ text_data = None \/ IsRecord(text_data)
    /\ \A k \in 1..Len(results) : IsRecord(results[k])
    /\ Done => /\ \A k \in 1..Len(output) : IsRecord(output[k])
               /\ full_text = "" => output = <<>>

\* a text with a surname label on its last line and a garbled MRZ pair has
\* gone through every component and come out as a list of one record
C8_Witness ==
    /\ Done /\ Len(mrz_pairs) = 1 /\ text_data # None /\ Len(output) = 1
    /\ "date_of_birth" \in FlagSet(mrz_results[1])
    /\ AnySearch(surname_patterns, Upper(TextLines(full_text)[Len(TextLines(full_text))]))

\* the birth date of Line 2 has a month outside 1..12 or a day outside 1..31
MrzDateOutOfRange(line2) ==
    \/ ToInt(Slice(line2, 15, 17)) \notin 1..12
    \/ ToInt(Slice(line2, 17, 19)) \notin 1..31

\* the text states no date: no DD/MM/YYYY and none of the twelve month names
TextStatesNoDate(text) ==
    /\ \A k \in 0..Len(text) : ~NumericDateAt(text, k, DateSeparators)
    /\ \A m \in 1..Len(MonthNames) : ~Contains(Upper(text), MonthNames[m])

\* C9: a birth date that neither tier can determine (no located pair or an MRZ
\* date out of range, and a text that states no date) is output as the empty
\* string and flagged, never as a default or a guess; and so is a sex that
\* neither tier determines.
C9_NeverGuessed ==
    Done => \A k \in 1..Len(output) :
        /\ (mrz_pairs = <<>> \/ MrzDateOutOfRange(mrz_pairs[k][2])) /\ TextStatesNoDate(full_text)
               => output[k].date_of_birth = "" /\ "date_of_birth" \in FlagSet(output[k])
        /\ (mrz_pairs = <<>> \/ At(mrz_pairs[k][2], 20) \notin {"M", "F"})
               /\ (text_data = None \/ text_data.gender = "")
               => output[k].gender = "" /\ "gender" \in FlagSet(output[k])

LocatorReturned ==
    pc \in {"split", "backward"} \/ (pc = "parse" /\ mrz_results = <<>>)

StrategyPairs(n, lines) ==
    IF n = 1 THEN Strategy1Pairs(lines)
    ELSE IF n = 2 THEN Strategy2Pairs(lines)
    ELSE Strategy3Pairs(lines)

\* C10: the strategies run in the order 1, 2, 3; a strategy runs only when
\* every earlier one yielded no pair; the pairs returned are those of the last
\* strategy run alone, which is the first to yield any.
C10_FirstYieldWins ==
    LET lines == SplitLines(full_text)
        n == Len(strategies_run)
    IN  /\ strategies_run = [i \in 1..n |-> i] /\ n <= 3
        /\ LocatorReturned =>
               /\ n >= 1
               /\ \A i \in 1..(n - 1) : StrategyPairs(i, lines) = <<>>
               /\ mrz_pairs = StrategyPairs(n, lines)
               /\ pc = "parse" /\ n < 3 => mrz_pairs # <<>>
               /\ pc # "parse" => mrz_pairs = <<>>

\* split-line reconstruction has yielded the pairs after direct pairing yielded none
C10_Witness ==
    /\ pc = "parse" /\ strategies_run = <<1, 2>>
    /\ mrz_pairs # <<>>
    /\ Strategy1Pairs(SplitLines(full_text)) = <<>>

-----------------------------------------------------------------------------
(* The Locator alone, on pages laid out as three printed lines with blank  *)
(* lines between them                                                      *)

\* a Line 1 longer than 44 characters, in lower case and with spaces
L1_LONG == "p<hun kovacs<<anna<<<<<<<<<<<<<<<<<<<<<<<<<<<<<<<<"
\* a Line-2 candidate of 30 characters: the lowest score a candidate can have
L2_SHORT == "<<<<<<<<<<HUN9001011<2501017<<"

FirstLines == {L1_ROTARI, L1_LONG, L1_PARTIAL}
LaterLines == {L2_VALID, L2_BAD_DATE, L2_GAPS, L2_SHORT, L1_CONTINUATION, L1_KOVACS}

\* the most blank lines between the first and the second printed line, and
\* between the second and the third
MaxGap == 16
MaxSecondGap == 14

LayoutText(first, gap1, second, gap2, third) ==
    first \o Repeat("\n", gap1 + 1) \o second \o Repeat("\n", gap2 + 1) \o third

\* none, a few, and the most blank lines
FirstGaps == {0, 4, 8, 9} \cup {g \in {MaxGap - 1, MaxGap} : g >= 0}
SecondGaps == {0, 4} \cup {g \in {MaxSecondGap - 1, MaxSecondGap} : g >= 0}

LayoutTexts ==
    {LayoutText(first, gap1, second, gap2, third) :
        first \in FirstLines, gap1 \in FirstGaps, second \in LaterLines,
        gap2 \in SecondGaps, third \in LaterLines}

LocatorInit ==
    /\ full_text \in LayoutTexts
    /\ lib_installed = FALSE
    /\ pc = "start"
    /\ mrz_pairs = <<>>
    /\ strategies_run = <<>>
    /\ mrz_results = <<>>
    /\ text_data = None
    /\ merge_idx = 0
    /\ results = <<>>
    /\ output = <<>>
    /\ raised = ""
    /\ m_mrz = None /\ m_text = None /\ m_out = None /\ m_pc = "idle"

NextLocator == LocateDirect \/ LocateSplit \/ LocateBackward

SpecLocator == LocatorInit /\ [][NextLocator]_vars

-----------------------------------------------------------------------------
(* Properties of the Locator, checked under SpecLocator                    *)

PageLines == SplitLines(full_text)

DirectPairingDone == pc # "start"

\* score - 2 x (line distance) of Line-2 candidate c for the Line 1 at line1_idx
AdjustedScore(c, line1_idx) == c.score - 2 * (c.idx - line1_idx)

\* the Line-2 candidates of c2 on a line after line1_idx
LaterCandidates(c2, line1_idx) == {k \in 1..Len(c2) : c2[k].idx > line1_idx}

\* C11: the Line 2 that direct pairing pairs with a Line-1 candidate lies on a
\* later line, has the greatest score - 2 x distance of all Line-2 candidates
\* on later lines, and is the earliest of those that have it.
C11_BestLaterLine2 ==
    DirectPairingDone =>
        LET matches == Strategy1Matches(PageLines)
            c2 == line2_candidates(PageLines)
        IN  \A n \in 1..Len(matches) :
                LET m == matches[n]
                IN  /\ m.line2_idx > m.line1_idx
                    /\ \E k \in LaterCandidates(c2, m.line1_idx) :
                           /\ c2[k].idx = m.line2_idx
                           /\ m.l2 = Normalize44(c2[k].line)
                           /\ \A j \in LaterCandidates(c2, m.line1_idx) :
                                  \/ AdjustedScore(c2[j], m.line1_idx)
                                         < AdjustedScore(c2[k], m.line1_idx)
                                  \/ /\ AdjustedScore(c2[j], m.line1_idx)
                                            = AdjustedScore(c2[k], m.line1_idx)
                                     /\ c2[j].idx >= c2[k].idx

\* two later candidates tie on the adjusted score and the earlier one is paired
C11_Witness ==
    /\ pc = "parse" /\ strategies_run = <<1>> /\ Len(mrz_pairs) = 1
    /\ LET m == Strategy1Matches(PageLines)[1]
           c2 == line2_candidates(PageLines)
       IN  /\ Len(c2) = 2 /\ c2[1].idx = m.line2_idx /\ c2[1].score < c2[2].score
           /\ AdjustedScore(c2[1], m.line1_idx) = AdjustedScore(c2[2], m.line1_idx)
           /\ mrz_pairs[1][2] = Normalize44(c2[1].line)

\* C12: every Line-1 candidate with a Line-2 candidate on some later line
\* yields exactly one pair of direct pairing, and one without yields none.
C12_EveryLine1Paired ==
    DirectPairingDone =>
        LET matches == Strategy1Matches(PageLines)
            c1 == line1_candidates(PageLines)
            c2 == line2_candidates(PageLines)
        IN  \A k \in 1..Len(c1) :
                Cardinality({n \in 1..Len(matches) : matches[n].line1_idx = c1[k].idx})
                    = IF LaterCandidates(c2, c1[k].idx) # {} THEN 1 ELSE 0

IsMrzLine(l) == Len(l) = MrzWidth /\ AllIn(l, MrzChars)

ArePairsOfMrzLines(pairs) ==
    \A k \in 1..Len(pairs) :
        Len(pairs[k]) = 2 /\ IsMrzLine(pairs[k][1]) /\ IsMrzLine(pairs[k][2])

\* C13: each line of each pair that any of the three strategies yields, and so
\* of each pair the Locator returns, is 44 characters of A-Z, 0-9 and '<'.
C13_PairsAre44 ==
    /\ ArePairsOfMrzLines(mrz_pairs)
    /\ DirectPairingDone =>
           LET lines == PageLines
           IN  /\ ArePairsOfMrzLines(Strategy1Pairs(lines))
               /\ ArePairsOfMrzLines(Strategy2Pairs(lines))
               /\ ArePairsOfMrzLines(Strategy3Pairs(lines))

\* a returned pair whose Line 1 was cut from a longer cleaned line and whose
\* Line 2 was padded from a shorter one
C13_Witness ==
    /\ pc = "parse" /\ Len(mrz_pairs) = 1
    /\ LET lines == PageLines
       IN  \E i, j \in 1..Len(lines) :
               /\ Len(Cleaned(lines[i])) > MrzWidth
               /\ mrz_pairs[1][1] = Slice(Cleaned(lines[i]), 0, MrzWidth)
               /\ Len(Cleaned(lines[j])) < MrzWidth
               /\ mrz_pairs[1][2] = Ljust(Cleaned(lines[j]), MrzWidth, "<")

\* C14: normalizing a line that is already 44 characters of A-Z, 0-9 and '<'
\* returns it, so that for every cleaned line of the page normalizing twice is
\* normalizing once, and every line the Locator returns is its own normal form.
C14_NormalizeIdempotent ==
    /\ LET lines == PageLines
       IN  \A i \in 1..Len(lines) :
               LET c == Cleaned(lines[i])
               IN  /\ IsMrzLine(Normalize44(c))
                   /\ Normalize44(Normalize44(c)) = Normalize44(c)
                   /\ IsMrzLine(c) => Normalize44(c) = c
    /\ \A k \in 1..Len(mrz_pairs) :
           Normalize44(mrz_pairs[k][1]) = mrz_pairs[k][1]
           /\ Normalize44(mrz_pairs[k][2]) = mrz_pairs[k][2]

\* the Locator has returned a pair normalized from a longer line, and a line
\* shorter than 44 is on the page
C14_Witness ==
    /\ pc = "parse" /\ mrz_pairs # <<>>
    /\ LET lines == PageLines
       IN  /\ \E i \in 1..Len(lines) :
                  /\ Len(Cleaned(lines[i])) > MrzWidth
                  /\ mrz_pairs[1][1] = Normalize44(Cleaned(lines[i]))
                  /\ mrz_pairs[1][1] # Cleaned(lines[i])
           /\ \E i \in 1..Len(lines) : Len(Cleaned(lines[i])) \in 1..(MrzWidth - 1)

\* the test strategy 3 puts to a line before a Line 2
PassesLine1(line) ==
    LET cleaned == Cleaned(line)
    IN  StartsWith(cleaned, "P<") /\ Contains(cleaned, "<<") /\ validate_mrz_line1(cleaned)

\* the nearest line before line2_idx, no further back than lowest, that passes
\* Line-1 validation; -1 when there is none
NearestLine1(lines, line2_idx, lowest) ==
    LET passing == {i \in lowest..(line2_idx - 1) : PassesLine1(lines[i + 1])}
    IN  IF passing = {} THEN -1 ELSE SetMax(passing)

\* the Line-2 candidates by descending score, candidates of one score in the
\* order of the page
ByScore(c2) ==
    LET rank(k) == Cardinality({j \in 1..Len(c2) :
                       c2[j].score > c2[k].score \/ (c2[j].score = c2[k].score /\ j < k)})
    IN  [n \in 1..Len(c2) |-> c2[CHOOSE k \in 1..Len(c2) : rank(k) = n - 1]]

\* the pairs of a backward search that goes back to line lowest(idx) for the
\* Line 2 at idx: one for each candidate, in order, that has a Line 1 there
BackwardPairs(lines, lowest(_)) ==
    LET tried == ByScore(line2_candidates(lines))
        found == [k \in 1..Len(tried) |-> NearestLine1(lines, tried[k].idx, lowest(tried[k].idx))]
        hit == {k \in 1..Len(tried) : found[k] # -1}
    IN  [n \in 1..Cardinality(hit) |->
            LET k == CHOOSE h \in hit : Cardinality({g \in hit : g < h}) = n - 1
            IN  <<Normalize44(Cleaned(lines[found[k] + 1])), Normalize44(tried[k].line)>>]

FifteenBack(idx) == IF idx - 15 > 0 THEN idx - 15 ELSE 0
FourteenBackNotFirst(idx) == IF idx - 14 > 1 THEN idx - 14 ELSE 1

C27_BackwardFindsNothingNew ==
    DirectPairingDone =>
        LET lines == PageLines
            c1 == line1_candidates(lines)
            c2 == line2_candidates(lines)
            back == Strategy3Matches(lines)
        IN  /\ Strategy1Pairs(lines) = <<>> => back = <<>>
            /\ \A n \in 1..Len(back) :
                  /\ back[n].line2_idx - back[n].line1_idx \in 1..14
                  /\ \E k \in 1..Len(c1) : c1[k].idx = back[n].line1_idx
                  /\ \E k \in 1..Len(c2) :
                        /\ c2[k].idx = back[n].line2_idx
                        /\ c2[k].score >= 30
                        /\ AdjustedScore(c2[k], back[n].line1_idx) >= 0
            /\ (pc = "parse" /\ mrz_pairs # <<>>) =>
                  strategies_run \in {<<1>>, <<1, 2>>}
            /\ strategies_run = <<1, 2, 3>> => mrz_pairs = <<>>

\* backward search has run on a page with a Line 1 and a Line 2 after it
C27_Witness ==
    /\ strategies_run = <<1, 2, 3>> /\ pc = "parse"
    /\ mrz_pairs = <<>>
    /\ LET lines == PageLines
       IN  \E k1 \in 1..Len(line1_candidates(lines)), k2 \in 1..Len(line2_candidates(lines)) :
               line1_candidates(lines)[k1].idx < line2_candidates(lines)[k2].idx

-----------------------------------------------------------------------------
(* The date decoder on its own: the Tier-1 parser applied to pairs whose   *)
(* Line 2 carries every two-digit year with the months and days up to one  *)
(* beyond the calendar's.                                                  *)

\* the largest month and day number written into a birth date field
MaxMonth == 13
MaxDay == 32

\* a Line 2 with the birth date field (offsets 13..18) reading yy mm dd
DateLine2(yy, mm, dd) ==
    "AB1234567<HUN" \o TwoDigits(yy) \o TwoDigits(mm) \o TwoDigits(dd)
        \o "0F2501017<<<<<<<<<<<<<<04"

DatePairs ==
    {<<L1_ROTARI, DateLine2(yy, mm, dd)>> : yy \in 0..99, mm \in 0..MaxMonth, dd \in 0..MaxDay}

DateInit ==
    /\ mrz_pairs \in {<<pair>> : pair \in DatePairs}
    /\ full_text = mrz_pairs[1][1] \o "\n" \o mrz_pairs[1][2]
    /\ lib_installed = FALSE
    /\ pc = "parse"
    /\ strategies_run = <<1>>
    /\ mrz_results = <<>>
    /\ text_data = None /\ merge_idx = 0 /\ results = <<>> /\ output = <<>>
    /\ raised = ""
    /\ m_mrz = None /\ m_text = None /\ m_out = None /\ m_pc = "idle"

NextDate == ParsePair

SpecDate == DateInit /\ [][NextDate]_vars

-----------------------------------------------------------------------------
(* Claims about the date decoder, checked under SpecDate                   *)

\* dob_raw = line2[13:19]
BirthField(pair) == Slice(pair[2], 13, 19)

InCalendar(mm, dd) == 1 <= dd /\ dd <= 31 /\ 1 <= mm /\ mm <= 12

\* DD/MM/YYYY, the year being 2000 + yy up to the pivot and 1900 + yy beyond it
Decoded(yy, mm, dd) ==
    LET year == IF yy <= 30 THEN 2000 + yy ELSE 1900 + yy
    IN  TwoDigits(dd) \o "/" \o TwoDigits(mm) \o "/"
            \o TwoDigits(year \div 100) \o TwoDigits(year % 100)

\* C15: format_date applied to a six-digit YYMMDD whose day is in 1..31 and
\* whose month is in 1..12 reports valid and returns DD/MM/YYYY with the year
\* 2000 + yy when yy <= 30 and 1900 + yy otherwise; with the day or the month
\* outside these ranges it returns its input and reports invalid.  The parsed
\* record carries the returned value, and flags date_of_birth exactly when
\* format_date reports invalid.
C15_DateRoundTrip ==
    \A k \in 1..Len(mrz_results) :
        LET raw == BirthField(mrz_pairs[k])
            yy == ToInt(Slice(raw, 0, 2))
            mm == ToInt(Slice(raw, 2, 4))
            dd == ToInt(Slice(raw, 4, 6))
            got == format_date(raw)
            rec == mrz_results[k]
        IN  /\ Len(raw) = 6 /\ AllIn(raw, Digits)
            /\ rec.date_of_birth = got.value
            /\ got.valid = ("date_of_birth" \notin FlagSet(rec))
            /\ IF InCalendar(mm, dd)
               THEN got.valid /\ got.value = Decoded(yy, mm, dd)
               ELSE ~got.valid /\ got.value = raw

\* a year on the pivot decoded into this century
C15_Witness ==
    /\ Len(mrz_results) = 1
    /\ BirthField(mrz_pairs[1]) = "300131"
    /\ mrz_results[1].date_of_birth = "31/01/2030"
    /\ "date_of_birth" \notin FlagSet(mrz_results[1])

-----------------------------------------------------------------------------
(* The Tier-1 parser on its own: extract_from_mrz_lines applied to pairs   *)
(* of lines, with the third-party checker installed or not.                *)

\* the specimen of ICAO Doc 9303, whose five check digits are right
L1_ERIKSSON == "P<UTOERIKSSON<<ANNA<MARIA<<<<<<<<<<<<<<<<<<<"
L2_ERIKSSON == "L898902C36UTO7408122F1204159ZE184226B<<<<<10"

ParserLine1s == MergeLine1s \cup {L1_ROTARI, L1_ERIKSSON}

ParserLine2s ==
    MergeLine2s \cup {L2_VALID, L2_SHAPE_ONLY, Normalize44(L2_SHAPE_ONLY), L2_ERIKSSON}

ParserInit ==
    /\ mrz_pairs \in {<< <<line1, line2>> >> : line1 \in ParserLine1s, line2 \in ParserLine2s}
    /\ full_text = mrz_pairs[1][1] \o "\n" \o mrz_pairs[1][2]
    /\ lib_installed \in BOOLEAN
    /\ pc = "parse"
    /\ strategies_run = <<1>>
    /\ mrz_results = <<>>
    /\ text_data = None /\ merge_idx = 0 /\ results = <<>> /\ output = <<>>
    /\ raised = ""
    /\ m_mrz = None /\ m_text = None /\ m_out = None /\ m_pc = "idle"

NextParser == ParsePair

SpecParser == ParserInit /\ [][NextParser]_vars

-----------------------------------------------------------------------------
(* Claims about the Tier-1 parser, checked under SpecParser                *)

\* the pair of the decoding scenario: Line 1 padded to 44, Line 2 as printed
\* or padded to 44 as the locator hands it on
IsScenarioPair(pair) ==
    /\ pair[1] = Ljust("P<UTOROTARI<DOANI<<OLGA<<<<<<<<<<<<<<<<<<<<", MrzWidth, Filler)
    /\ pair[2] \in {L2_SHAPE_ONLY, Normalize44(L2_SHAPE_ONLY)}

\* C16: parsing the scenario pair yields last_name "ROTARI DOANI", first_name
\* "OLGA", date_of_birth "15/06/1985", nationality "UTO" and passport_number
\* "12345678".
C16_ScenarioDecode ==
    \A k \in 1..Len(mrz_results) :
        IsScenarioPair(mrz_pairs[k]) =>
            /\ mrz_results[k].last_name = "ROTARI DOANI"
            /\ mrz_results[k].first_name = "OLGA"
            /\ mrz_results[k].date_of_birth = "15/06/1985"
            /\ mrz_results[k].nationality = "UTO"
            /\ mrz_results[k].passport_number = "12345678"

C16_Witness ==
    /\ Len(mrz_results) = 1
    /\ IsScenarioPair(mrz_pairs[1])
    /\ mrz_pairs[1][2] = L2_SHAPE_ONLY
    /\ mrz_results[1].last_name = "ROTARI DOANI"

\* C17 as stated: parsing the scenario pair yields gender "F", and gender is
\* not flagged.
C17_ScenarioGenderF ==
    \A k \in 1..Len(mrz_results) :
        IsScenarioPair(mrz_pairs[k]) =>
            /\ mrz_results[k].gender = "F"
            /\ "gender" \notin FlagSet(mrz_results[k])

\* C17: the sex is read at Line-2 offset 20 and kept only if it is M or F,
\* otherwise gender is empty and flagged; offset 20 of the scenario's Line 2
\* holds "1", so parsing the scenario pair yields gender "" and gender is
\* flagged.
C17_SexAtOffset20 ==
    \A k \in 1..Len(mrz_results) :
        LET sex == At(mrz_pairs[k][2], 20)
            rec == mrz_results[k]
        IN  /\ rec.gender = (IF sex \in {"M", "F"} THEN sex ELSE "")
            /\ (rec.gender = "") = ("gender" \in FlagSet(rec))
            /\ IsScenarioPair(mrz_pairs[k]) =>
                   sex = "1" /\ rec.gender = "" /\ "gender" \in FlagSet(rec)

C17_Witness ==
    /\ Len(mrz_results) = 1
    /\ IsScenarioPair(mrz_pairs[1])
    /\ mrz_pairs[1][2] = L2_SHAPE_ONLY
    /\ At(mrz_pairs[1][2], 21) = "F"
    /\ mrz_results[1].gender = ""
    /\ "gender" \in FlagSet(mrz_results[1])

\* C20: whenever the third-party checker is installed and validates the pair,
\* the returned record is the one built from the checker's fields, with
\* confidence 0.95 or 0.7; the manual decoder is used only when the checker
\* is unavailable or fails.  (The specimen pair is one the checker validates.)
C20_CheckerRecordWhenValidated ==
    \A k \in 1..Len(mrz_results) :
        LET rec == mrz_results[k]
        IN  /\ (lib_installed /\ mrz_pairs[k] = <<L1_ERIKSSON, L2_ERIKSSON>>) =>
                   rec.confidence \in {ConfLibraryClean, ConfLibraryFlagged}
            /\ ~lib_installed => rec.confidence \in {ConfManualClean, ConfManualFlagged}

-----------------------------------------------------------------------------
(* The Tier-2 extractor on its own: extract_fields_from_text applied to    *)
(* pages without a machine-readable zone, put together from printed        *)
(* blocks: names, passport number, nationality or birth date, a sex label, *)
(* the words MALE and FEMALE, a slash pattern.                             *)

NameBlocks == {"", "SURNAME: SMITH", "GIVEN NAMES\nJOHN PAUL"}
NumberBlocks == {"", "PASSPORT NO\nAB1234567"}
OriginBlocks == {"", "NATIONALITY\nHUNGARIAN", "DATE OF BIRTH\n05 JAN 96"}
SexLabelBlocks == {"", "SEX", "SEX M", "SEX\nMALE"}
KeywordBlocks == {"", "MALE", "FEMALE", "MALE FEMALE", "Female\nor male"}
SlashBlocks == {"", "M/F"}

\* the printed blocks one under the other, the absent ones left out
PageOf(blocks) == Join(SelectSeq(blocks, LAMBDA b : b # ""), "\n")

Tier2Texts ==
    {PageOf(<<name, number, origin, label, keyword, slash>>) :
        name \in NameBlocks, number \in NumberBlocks, origin \in OriginBlocks,
        label \in SexLabelBlocks, keyword \in KeywordBlocks, slash \in SlashBlocks}

Tier2Init ==
    /\ full_text \in Tier2Texts \ {""}
    /\ lib_installed = FALSE
    /\ pc = "parse"
    /\ mrz_pairs = <<>>
    /\ strategies_run = <<1, 2, 3>>
    /\ mrz_results = <<>>
    /\ text_data = None /\ merge_idx = 0 /\ results = <<>> /\ output = <<>>
    /\ raised = ""
    /\ m_mrz = None /\ m_text = None /\ m_out = None /\ m_pc = "idle"

NextTier2 == ExtractText

SpecTier2 == Tier2Init /\ [][NextTier2]_vars

-----------------------------------------------------------------------------
(* Claims about the Tier-2 extractor, checked under SpecTier2              *)

Extracted == pc = "merge" /\ raised = ""

\* the text holds w as a word
HasWord(text, w) == Search(Label(TRUE, <<w>>, TRUE), Upper(text))

BothKeywords == HasWord(full_text, "MALE") /\ HasWord(full_text, "FEMALE")

\* no line bears a sex label, and no F/M or M/F slash pattern is printed
KeywordsDecide ==
    LET lines == TextLines(full_text)
    IN  /\ \A i \in 1..Len(lines) : ~AnySearch(gender_label_patterns, Upper(lines[i]))
        /\ ~SlashPair(Upper(full_text), "F", "M")
        /\ ~SlashPair(Upper(full_text), "M", "F")

\* C18 as stated: for any text that contains both the word MALE and the word
\* FEMALE, Tier-2 extraction resolves gender to "F".
C18_FemaleWins ==
    (Extracted /\ BothKeywords) =>
        /\ ExtractGender(full_text, TextLines(full_text)) = "F"
        /\ text_data # None => text_data.gender = "F"

\* C18: for any text that contains both the word MALE and the word FEMALE,
\* and in which no sex/gender label and no F/M or M/F slash pattern is
\* printed, Tier-2 extraction resolves gender to "F".
C18_FemaleWinsAmongKeywords ==
    (Extracted /\ BothKeywords /\ KeywordsDecide) =>
        /\ ExtractGender(full_text, TextLines(full_text)) = "F"
        /\ text_data # None => text_data.gender = "F"

C18_Witness ==
    /\ Extracted /\ BothKeywords /\ KeywordsDecide
    /\ text_data # None
    /\ text_data.gender = "F"

\* C19: Tier-2 extraction returns no record if and only if the extracted
\* surname, first name and passport number are all empty; otherwise it returns
\* one record, whose low_confidence_fields lists every one of last_name,
\* first_name, passport_number, date_of_birth, gender, nationality that is
\* empty, with confidence 0.5 when at most 2 fields are flagged and 0.3
\* otherwise.
C19_RecordIffSomethingFound ==
    Extracted =>
        LET lines == TextLines(full_text)
            surname == ExtractSurname(lines)
            given == SplitWs(ExtractGivenNames(lines))
            number == ExtractPassportNumber(full_text, lines)
        IN  /\ (text_data = None) = (surname = "" /\ given = <<>> /\ number = "")
            /\ text_data # None =>
                  /\ text_data.last_name = surname
                  /\ text_data.first_name = (IF given = <<>> THEN "" ELSE given[1])
                  /\ text_data.passport_number = number
                  /\ FlagSet(text_data) = EmptyOf(text_data, Flaggable)
                  /\ text_data.confidence =
                        (IF Cardinality(FlagSet(text_data)) <= 2 THEN 50 ELSE 30)

\* a record with three fields flagged, and so the lower confidence
C19_Witness ==
    /\ Extracted
    /\ text_data # None
    /\ Cardinality(FlagSet(text_data)) = 3
    /\ text_data.confidence = 30

-----------------------------------------------------------------------------
(* The Line-2 validator and scorer on their own: the locator run on a page *)
(* of two lines, a Line 1 and under it a line put together from a passport *)
(* number field, a check character, a nationality, a birth date, a second  *)
(* check character, a sex character and a tail.                            *)

NumberFields == {"AB1234567", "AB12345<<", "<<<<<<<<<"}
NumberChecks == {"9", "<", "X"}
NationalityFields == {"UTO", "U<O", "U1O"}
BirthFields == {"850615", "85061<", "8506A5"}
BirthChecks == {"1", "<", "A"}
SexFields == {"F", "M", "<", "1", "X"}
\* tails that bring the line to 29, 30, 40, 44 and 49 characters
Tails == {Repeat("<", n) : n \in {8, 9, 19, 23, 28}} \cup {"3001012M<"}

SecondLines ==
    {number \o c1 \o nationality \o birth \o c2 \o sex \o tail :
        number \in NumberFields, c1 \in NumberChecks, nationality \in NationalityFields,
        birth \in BirthFields, c2 \in BirthChecks, sex \in SexFields, tail \in Tails}

ValidatorInit ==
    /\ full_text \in {L1_ROTARI \o "\n" \o second : second \in SecondLines}
    /\ lib_installed = FALSE
    /\ pc = "start"
    /\ mrz_pairs = <<>>
    /\ strategies_run = <<>>
    /\ mrz_results = <<>>
    /\ text_data = None /\ merge_idx = 0 /\ results = <<>> /\ output = <<>>
    /\ raised = ""
    /\ m_mrz = None /\ m_text = None /\ m_out = None /\ m_pc = "idle"

NextValidator == LocateDirect \/ LocateSplit \/ LocateBackward

SpecValidator == ValidatorInit /\ [][NextValidator]_vars

-----------------------------------------------------------------------------
(* Claims about the Line-2 validator and scorer, checked under             *)
(* SpecValidator                                                           *)

\* the second line of the page, as the locator cleans it
SecondLine == Cleaned(SplitLines(full_text)[2])

\* the characters at offsets a..(b - 1) of l are all in S
FieldIn(l, a, b, S) == \A i \in a..(b - 1) : At(l, i) \in S

\* 9 characters from [A-Z0-9<], one from [0-9<], 3 letters and 6 digits
First19(l) ==
    /\ FieldIn(l, 0, 9, UpperLetters \cup Digits \cup {"<"})
    /\ FieldIn(l, 9, 10, Digits \cup {"<"})
    /\ FieldIn(l, 10, 13, UpperLetters)
    /\ FieldIn(l, 13, 19, Digits)

\* C21 as stated: validate_line2(line) is true if and only if the line has
\* length >= 30 and its first 19 characters are 9 characters from [A-Z0-9<],
\* one from [0-9<], 3 letters and 6 digits; no other position of the line
\* affects the result.
C21_First19Decide ==
    DirectPairingDone =>
        LET l == SecondLine
        IN  validate_mrz_line2(l) = (Len(l) >= 30 /\ First19(l))

\* C21: validate_line2(line) is true if and only if the line has length >= 30
\* and its first 21 characters are 9 characters from [A-Z0-9<], one from
\* [0-9<], 3 letters, 6 digits, one from [0-9<] and one from [MF<]; no other
\* position of the line affects the result.  Direct pairing takes the line as
\* Line 2 exactly when it validates.
C21_First21Decide ==
    DirectPairingDone =>
        LET l == SecondLine
            valid == /\ Len(l) >= 30 /\ First19(l)
                     /\ FieldIn(l, 19, 20, Digits \cup {"<"})
                     /\ FieldIn(l, 20, 21, {"M", "F", "<"})
        IN  /\ validate_mrz_line2(l) = valid
            /\ strategies_run = <<1>> => (mrz_pairs # <<>>) = valid

\* a line whose first 19 characters have the shape and whose sex position
\* holds a digit: not taken as Line 2
C21_Witness ==
    /\ DirectPairingDone
    /\ Len(SecondLine) >= 30 /\ First19(SecondLine)
    /\ At(SecondLine, 20) = "1"
    /\ ~validate_mrz_line2(SecondLine)
    /\ mrz_pairs = <<>>

\* the score the claim adds up
ScoreSum(l) ==
      (IF Len(l) \in 40..48 THEN 10 ELSE 0)
    + (IF Cardinality({i \in 0..8 : At(l, i) \notin {"", "<"}}) >= 7 THEN 20 ELSE 0)
    + (IF FieldIn(l, 10, 13, UpperLetters) THEN 15 ELSE 0)
    + (IF At(l, 20) \in {"M", "F"} THEN 10 ELSE 0)
    + (IF FieldIn(l, 13, 19, Digits) THEN 15 ELSE 0)

\* C24: score_line2 returns the sum of +10 (length in 40..48), +20 (passport
\* field [0,9) has >= 7 non-filler characters), +15 (offset [10,13) is 3
\* letters), +10 (offset 20 is M or F) and +15 (offset [13,19) is 6 digits);
\* the result is an integer in 0..70.  Checked on lines of 29 to 49
\* characters (the locator scores validated lines only, which have at least
\* 30); the score kept with a Line-2 candidate is this sum.
C24_ScoreIsTheSum ==
    DirectPairingDone =>
        LET l == SecondLine
            c2 == line2_candidates(SplitLines(full_text))
        IN  /\ score_mrz_line2(l) = ScoreSum(l)
            /\ score_mrz_line2(l) \in 0..70
            /\ \A k \in 1..Len(c2) : c2[k].score = ScoreSum(c2[k].line)

\* a candidate of 49 characters: everything but the length bonus
C24_Witness ==
    /\ DirectPairingDone
    /\ Len(SecondLine) = 49
    /\ Len(line2_candidates(SplitLines(full_text))) = 1
    /\ line2_candidates(SplitLines(full_text))[1].score = 60

-----------------------------------------------------------------------------
(* The name parser on its own: the Tier-1 parser applied to pairs whose    *)
(* Line 1 carries a name section put together from a surname and up to     *)
(* three given-name tokens.                                                *)

SurnameSections == {"KOVACS", "ROTARI<DOANI", "DE<LA<CRUZ", "K0VACS", "<KOVACS", ""}
FirstTokens == {"", "ANNA", "A", "AN1A"}
SecondTokens == {"", "MARIA", "M", "MAR1A"}
ThirdTokens == {"", "EVA", "<JO"}

NameSections ==
    {surname \o "<<" \o t1 \o "<" \o t2 \o "<" \o t3 :
        surname \in SurnameSections, t1 \in FirstTokens, t2 \in SecondTokens,
        t3 \in ThirdTokens}
    \cup {"KOVACS", "KOVACS<ANNA", ""}

NamesInit ==
    /\ mrz_pairs \in {<< <<Ljust("P<HUN" \o section, MrzWidth, Filler), L2_VALID>> >> :
                         section \in NameSections}
    /\ full_text = mrz_pairs[1][1] \o "\n" \o mrz_pairs[1][2]
    /\ lib_installed = FALSE
    /\ pc = "parse"
    /\ strategies_run = <<1>>
    /\ mrz_results = <<>>
    /\ text_data = None /\ merge_idx = 0 /\ results = <<>> /\ output = <<>>
    /\ raised = ""
    /\ m_mrz = None /\ m_text = None /\ m_out = None /\ m_pc = "idle"

NextNames == ParsePair

SpecNames == NamesInit /\ [][NextNames]_vars

-----------------------------------------------------------------------------
(* Claims about the name parser, checked under SpecNames                   *)

\* the name section of Line 1 without its trailing fillers
NameSectionOf(pair) == RStrip(From(pair[1], 5), {"<"})

\* the part of the section before its first '<<', and the remainder
BeforeGiven(section) ==
    IF Find(section, "<<") = -1 THEN section ELSE Slice(section, 0, Find(section, "<<"))
AfterSurname(section) ==
    IF Find(section, "<<") = -1 THEN "" ELSE From(section, Find(section, "<<") + 2)

\* the surname: each single '<' a space, the spaces collapsed
SurnameWords(section) ==
    Join(SelectSeq(SplitChar(BeforeGiven(section), "<"), LAMBDA w : w # ""), " ")

\* the tokens of the remainder of length >= 2
KeptTokens(section) ==
    SelectSeq(SplitChar(AfterSurname(section), "<"), LAMBDA t : Len(t) >= 2)

\* C22 as stated: the part before the first '<<' is the surname, with each
\* single '<' replaced by a space, spaces collapsed and uppercased; the
\* remainder is split on '<', every token of length >= 2 is kept, the first
\* kept token is first_name and all remaining kept tokens joined by single
\* spaces are middle_name.
C22_NamesFromTokens ==
    \A k \in 1..Len(mrz_results) :
        LET section == NameSectionOf(mrz_pairs[k])
            kept == KeptTokens(section)
        IN  /\ mrz_results[k].last_name = SurnameWords(section)
            /\ mrz_results[k].first_name = (IF kept = <<>> THEN "" ELSE kept[1])
            /\ mrz_results[k].middle_name = (IF kept = <<>> THEN "" ELSE Join(Tail(kept), " "))

\* C22: the part before the first '<<' is the surname, with each single '<'
\* replaced by a space, spaces collapsed and uppercased; the remainder is
\* split on '<', every token of length >= 2 is kept, the first kept token is
\* first_name and the remaining kept tokens that consist of letters only,
\* joined by single spaces, are middle_name.
C22_MiddleNamesOfLetters ==
    \A k \in 1..Len(mrz_results) :
        LET section == NameSectionOf(mrz_pairs[k])
            kept == KeptTokens(section)
            lettered == IF kept = <<>> THEN <<>>
                        ELSE SelectSeq(Tail(kept), LAMBDA t : AllIn(t, UpperLetters))
        IN  /\ mrz_results[k].last_name = SurnameWords(section)
            /\ mrz_results[k].first_name = (IF kept = <<>> THEN "" ELSE kept[1])
            /\ mrz_results[k].middle_name = Join(lettered, " ")

\* a compound surname, a single letter left out, a token with a digit left
\* out of the middle name
C22_Witness ==
    /\ Len(mrz_results) = 1
    /\ NameSectionOf(mrz_pairs[1]) = "ROTARI<DOANI<<ANNA<MAR1A<EVA"
    /\ mrz_results[1].last_name = "ROTARI DOANI"
    /\ mrz_results[1].first_name = "ANNA"
    /\ mrz_results[1].middle_name = "EVA"

-----------------------------------------------------------------------------
(* Further claims about the locator inside the engine, checked under Spec  *)

\* C23: every pair the locator hands to the MRZ parser is a validated pair:
\* for each returned pair, from any strategy, the 44-character Line 1 passes
\* validate_line1 and the 44-character Line 2 passes validate_line2.
C23_PairsAreValidated ==
    LocatorReturned =>
        \A k \in 1..Len(mrz_pairs) :
            /\ validate_mrz_line1(mrz_pairs[k][1])
            /\ validate_mrz_line2(mrz_pairs[k][2])

-----------------------------------------------------------------------------
(* Split-line reconstruction on its own: the locator run on pages that     *)
(* begin with a partial Line 1, go on with printed lines and blank lines,  *)
(* and end with a Line-2-shaped line.                                      *)

L1_TOO_SHORT == "P<ISRRON<<OSNA"
\* seven fillers in ten characters
L1_SEVENTY == "<<<<<<<ABC"
L1_FOUR_FILLERS == "<<<<"

PartialLines == {L1_PARTIAL, L1_TOO_SHORT}
MiddleLines == {L1_CONTINUATION, L1_SEVENTY, L1_FOUR_FILLERS, "HELLO WORLD"}

\* the most printed lines, and the most blank lines, between the partial
\* Line 1 and the Line 2
MaxMiddle == 2
MaxBlank == 8

RECURSIVE MiddleSeqs(_)
MiddleSeqs(n) ==
    IF n = 0 THEN {<<>>}
    ELSE MiddleSeqs(n - 1)
         \cup {Append(m, l) : m \in {q \in MiddleSeqs(n - 1) : Len(q) = n - 1}, l \in MiddleLines}

SplitTexts ==
    {Join(<<first>> \o middle \o [k \in 1..blank |-> ""] \o <<second>>, "\n") :
        first \in PartialLines, middle \in MiddleSeqs(MaxMiddle),
        blank \in {0} \cup {b \in (MaxBlank - 2)..MaxBlank : b >= 0},
        second \in {L2_VALID, L2_SHAPE_ONLY}}

SplitInit ==
    /\ full_text \in SplitTexts
    /\ lib_installed = FALSE
    /\ pc = "start"
    /\ mrz_pairs = <<>>
    /\ strategies_run = <<>>
    /\ mrz_results = <<>>
    /\ text_data = None /\ merge_idx = 0 /\ results = <<>> /\ output = <<>>
    /\ raised = ""
    /\ m_mrz = None /\ m_text = None /\ m_out = None /\ m_pc = "idle"

NextSplit == LocateDirect \/ LocateSplit \/ LocateBackward

SpecSplit == SplitInit /\ [][NextSplit]_vars

-----------------------------------------------------------------------------
(* Claims about split-line reconstruction, checked under SpecSplit         *)

\* starts with P<, contains << and has fewer than 44 cleaned characters
StartsSplit(line) ==
    LET cleaned == Cleaned(line)
    IN  StartsWith(cleaned, "P<") /\ Contains(cleaned, "<<") /\ Len(cleaned) < 44

\* at least 70% of the cleaned text is '<'
SeventyPercentFillers(line) ==
    LET cleaned == Cleaned(line)
    IN  cleaned # "" /\ Count(cleaned, {"<"}) * 100 >= 70 * Len(cleaned)

\* the offsets of the up to 9 lines scanned after line i, and of the first
\* Line-2-shaped line among them (-1 when there is none)
ScannedAfter(lines, i) == {j \in (i + 1)..(i + 9) : j < Len(lines)}
FirstLine2After(lines, i) ==
    LET shaped == {j \in ScannedAfter(lines, i) : Line2Shape(Cleaned(lines[j + 1]))}
    IN  IF shaped = {} THEN -1 ELSE SetMin(shaped)

\* Line 1 at i with the continuation lines scanned before the Line 2 at j
ReconstructedLine1(lines, i, j) ==
    LET taken == Ascending({c \in (i + 1)..(j - 1) : SeventyPercentFillers(lines[c + 1])})
    IN  Cleaned(lines[i + 1]) \o Join([n \in 1..Len(taken) |-> Cleaned(lines[taken[n] + 1])], "")

ReconstructedPairs(lines) ==
    LET starts == Ascending({i \in 0..(Len(lines) - 1) :
                                StartsSplit(lines[i + 1]) /\ FirstLine2After(lines, i) # -1})
    IN  [n \in 1..Len(starts) |->
            <<Normalize44(ReconstructedLine1(lines, starts[n], FirstLine2After(lines, starts[n]))),
              Normalize44(Cleaned(lines[FirstLine2After(lines, starts[n]) + 1]))>>]

\* C26: for each line that starts with P<, contains << and has fewer than 44
\* cleaned characters, the next up to 9 lines are scanned in order; each
\* scanned line whose cleaned text is at least 70% '<' is appended to Line 1
\* as continuation, scanning stops at the first Line-2-shaped line, and a
\* pair (concatenated Line 1, that Line 2) is emitted if and only if such a
\* Line 2 was found within those lines.
C26_SplitReconstruction ==
    strategies_run = <<1, 2>> => mrz_pairs = ReconstructedPairs(SplitLines(full_text))

-----------------------------------------------------------------------------
(* Direct pairing on a page with several Line-1 candidates, checked under  *)
(* SpecLocator                                                             *)

\* C29: direct pairing uses each Line-2 candidate in at most one emitted pair:
\* two different Line-1 candidates are never paired with the same Line-2 line,
\* and a Line-1 candidate is never paired with a Line 2 that lies beyond a
\* later Line-1 candidate's own Line 2.
C29_Line2UsedOnce ==
    DirectPairingDone =>
        LET matches == Strategy1Matches(PageLines)
        IN  \A n \in 1..Len(matches) : \A m \in 1..Len(matches) :
                matches[n].line1_idx < matches[m].line1_idx =>
                    /\ matches[n].line2_idx # matches[m].line2_idx
                    /\ matches[n].line2_idx <= matches[m].line2_idx

-----------------------------------------------------------------------------
(* Further claims about the reconciler, checked under SpecMerge            *)

-----------------------------------------------------------------------------
(* The inputs of the merges of a page, checked under Spec                  *)

\* the merges made so far, in the order of the MRZ records, of the records
\* mrzs against the one record text
MergesOf(mrzs, text, n) ==
    LET merged == [k \in 1..n |-> merge_passport_data(mrzs[k], text)]
    IN  SelectSeq(merged, LAMBDA r : r # None)

\* a step of the merge loop leaves its inputs alone
InputsKept ==
    pc \in {"merge", "output"} /\ mrz_results # <<>> =>
        /\ text_data' = text_data
        /\ mrz_results' = mrz_results
        /\ results' = MergesOf(mrz_results, text_data, merge_idx')

\* C30: the Reconciler never modifies its inputs: in every step of the loop
\* that merges the several MRZ records of a page against its single Tier-2
\* record, that Tier-2 record (fields, confidence and low_confidence_fields)
\* and every MRZ record stay as they are, and the merged records so far are
\* the merges of the MRZ records against that same Tier-2 record.
C30_InputsUnchanged == [][InputsKept]_vars

\* two MRZ records merged against one Tier-2 record that filled a field one
\* of them lacks
C30_Witness ==
    /\ pc \in {"output", "done"} /\ merge_idx = 2 /\ Len(results) = 2
    /\ text_data # None /\ mrz_results[1] # None /\ mrz_results[2] # None
    /\ \E k \in 1..2 :
           \E f \in {"first_name", "middle_name", "last_name", "gender",
                     "date_of_birth", "nationality", "passport_number"} :
               /\ mrz_results[k][f] = "" /\ text_data[f] # ""
               /\ results[k][f] = text_data[f]
    /\ text_data = extract_fields_from_text(full_text)

====
